---- MODULE Spec2Model ----
(***************************************************************************)
(* Verification model of slurm_mcp: the cluster router / connection pool   *)
(* (cluster_manager.py), the remote session transport (ssh_client.py) and   *)
(* the interactive session manager (interactive.py, slurm_commands.py).     *)
(*                                                                         *)
(* Strings that the code inspects (node specifiers, role names, hostnames) *)
(* are sequences of one-character strings, so that "contains a dot" and    *)
(* "has the form role:index" are computed, not looked up.                  *)
(***************************************************************************)
EXTENDS Integers, Sequences, FiniteSets, TLC

(***************************************************************************)
(* Bounds of the model                                                     *)
(***************************************************************************)
NumTasks == 2
MaxOps == 3
MaxCalls == 3
MaxSessions == 2
MaxTicks == 2

(***************************************************************************)
(* Text                                                                    *)
(***************************************************************************)
None == << >>
Unresolved == <<"!">>

Login == <<"l", "o", "g", "i", "n">>
Data == <<"d", "a", "t", "a">>
Vscode == <<"v", "s", "c", "o", "d", "e">>

Digits == {"0", "1", "2", "3", "4", "5", "6", "7", "8", "9"}

DigitVal(ch) ==
  CASE ch = "0" -> 0 [] ch = "1" -> 1 [] ch = "2" -> 2 [] ch = "3" -> 3
    [] ch = "4" -> 4 [] ch = "5" -> 5 [] ch = "6" -> 6 [] ch = "7" -> 7
    [] ch = "8" -> 8 [] ch = "9" -> 9

Contains(s, ch) == \E i \in 1..Len(s) : s[i] = ch

IndexOf(s, ch) == IF Contains(s, ch)
                  THEN CHOOSE i \in 1..Len(s) : s[i] = ch /\ \A j \in 1..(i - 1) : s[j] # ch
                  ELSE 0

IsNumber(s) == Len(s) > 0 /\ \A i \in 1..Len(s) : s[i] \in Digits

DigitChar(i) == CHOOSE d \in Digits : DigitVal(d) = i

RECURSIVE ParseInt(_)
ParseInt(s) == IF s = << >> THEN 0
               ELSE 10 * ParseInt(SubSeq(s, 1, Len(s) - 1)) + DigitVal(s[Len(s)])

(***************************************************************************)
(* ClusterNodes and ClusterConfig.get_ssh_host                             *)
(***************************************************************************)
NodeTypes == {Login, Data, Vscode}

ClusterNodes(login, data, vscode) ==
  [r \in NodeTypes |-> IF r = Login THEN login ELSE IF r = Data THEN data ELSE vscode]

get_node(nodes, node_type, index) ==
  IF node_type \in DOMAIN nodes /\ index >= 0 /\ index < Len(nodes[node_type])
  THEN nodes[node_type][index + 1]
  ELSE None

AllHostnames(nodes) == UNION {{nodes[r][i] : i \in 1..Len(nodes[r])} : r \in DOMAIN nodes}

ByTypeIndex(nodes, s) ==
  LET k == IndexOf(s, ":")
      r == SubSeq(s, 1, k - 1)
      i == SubSeq(s, k + 1, Len(s))
  IN IF k > 0 /\ IsNumber(i) THEN get_node(nodes, r, ParseInt(i)) ELSE None

get_ssh_host_first(nodes, default_node_type, node) ==
  IF node = None THEN
    (IF get_node(nodes, default_node_type, 0) # None
     THEN get_node(nodes, default_node_type, 0) ELSE Unresolved)
  ELSE IF get_node(nodes, node, 0) # None THEN get_node(nodes, node, 0)
  ELSE IF ByTypeIndex(nodes, node) # None THEN get_node(nodes, SubSeq(node, 1, IndexOf(node, ":") - 1), 0)
  ELSE IF node \in AllHostnames(nodes) THEN node
  ELSE IF Contains(node, ".") THEN node
  ELSE Unresolved

get_ssh_host(nodes, default_node_type, node) ==
  IF node = None THEN
    (IF get_node(nodes, default_node_type, 0) # None
     THEN get_node(nodes, default_node_type, 0) ELSE Unresolved)
  ELSE IF get_node(nodes, node, 0) # None THEN get_node(nodes, node, 0)
  ELSE IF ByTypeIndex(nodes, node) # None THEN ByTypeIndex(nodes, node)
  ELSE IF node \in AllHostnames(nodes) THEN node
  ELSE IF Contains(node, ".") THEN node
  ELSE Unresolved

(***************************************************************************)
(* Configuration (MultiClusterConfig): immutable after load                *)
(***************************************************************************)
A1 == <<"a", "1", ".", "x">>
A2 == <<"a", "2", ".", "x">>
A3 == <<"a", "3", ".", "x">>
B1 == <<"b", "1", ".", "x">>

NoCluster == "None"
ClusterOrder == <<"A", "B">>
ClusterNames == {ClusterOrder[i] : i \in 1..Len(ClusterOrder)}
ConfigDefaultCluster == "A"
CommandTimeout == 60
InteractiveSessionTimeout == 3600

Config(c) ==
  IF c = "A"
  THEN [nodes |-> ClusterNodes(<<A1, A2>>, <<A3>>, << >>), default_node_type |-> Login,
        command_timeout |-> CommandTimeout]
  ELSE [nodes |-> ClusterNodes(<<B1>>, << >>, << >>), default_node_type |-> Login,
        command_timeout |-> CommandTimeout]

(***************************************************************************)
(* State                                                                   *)
(***************************************************************************)
VARIABLES clusters, default_cluster, mgr_lock, ssh, task, ops, ghost, outcome, handle,
          r_nodes, r_default, r_node, r_host,
          sessions, heap, jobs, now, stask, sops, cancels, sout,
          managers, using,
          submission, srun_call, sinfo_p, sinfo_n, gres_call, show_job

vars == <<clusters, default_cluster, mgr_lock, ssh, task, ops, ghost, outcome, handle,
          r_nodes, r_default, r_node, r_host,
          sessions, heap, jobs, now, stask, sops, cancels, sout,
          managers, using,
          submission, srun_call, sinfo_p, sinfo_n, gres_call, show_job>>

\* the variables of the connection pool, of node resolution and of the session manager
pvars == <<clusters, default_cluster, mgr_lock, ssh, task, ops, ghost, outcome, handle>>

rvars == <<r_nodes, r_default, r_node, r_host>>

svars == <<sessions, heap, jobs, now, stask, sops, cancels, sout>>

\* the session managers the tool layer has obtained and the one each request uses
tvars == <<managers, using>>

\* the arguments and results of the scheduler commands applied as functions
fvars == <<submission, srun_call, sinfo_p, sinfo_n, gres_call, show_job>>

Tasks == 1..NumTasks

NodeConnection(hostname, ssh_client) ==
  [hostname |-> hostname, ssh_client |-> ssh_client, connected |-> FALSE]

ClusterInstances(c) ==
  [node_connections |-> << >>, order |-> << >>, current_node |-> None]

SSHClient(cluster, hostname) ==
  [cluster |-> cluster, hostname |-> hostname, connection |-> 0, closed |-> FALSE,
   lock |-> << >>, serial |-> 0]

IdleTask ==
  [pc |-> "idle", op |-> "none", cluster |-> NoCluster, node |-> None, hostname |-> None,
   client |-> 0, ctx |-> "none", timeout |-> 0, check |-> FALSE, issued |-> 0,
   used |-> 0, hlist |-> << >>, clist |-> << >>, seen |-> None, alone |-> TRUE]

\* history of a NodeConnection: connect() calls of get_cluster_instances (attempts),
\* those that raised (fails) and lock waiters whose re-check found it connected
\* (skips), counted over one group of overlapping calls; connections on which a
\* command met a transport error (failed); whether a connect() call found the
\* transport connected (reused) and whether a disconnect() call found it without
\* a connection (noop)
NoGhost == [attempts |-> 0, fails |-> 0, skips |-> 0, failed |-> {},
            reused |-> FALSE, noop |-> FALSE]

NoOutcome == [op |-> "none", value |-> "none"]

\* handle[t] is the instances object that task t's get_cluster_instances call
\* with an explicit node returned, with the hostname the node resolved to; the
\* caller runs its commands through it until it makes another manager call
NoHandle == [cluster |-> NoCluster, hostname |-> None]

St == [cl |-> clusters, dc |-> default_cluster, ml |-> mgr_lock, ssh |-> ssh,
       tk |-> task, gh |-> ghost, out |-> outcome, hd |-> handle]

\* the state S that a handler computed becomes the next state of the pool
Commit(S) ==
  \E R \in {S} :
    /\ clusters' = R.cl
    /\ default_cluster' = R.dc
    /\ mgr_lock' = R.ml
    /\ ssh' = R.ssh
    /\ task' = R.tk
    /\ ghost' = R.gh
    /\ outcome' = R.out
    /\ handle' = R.hd

initialize ==
  /\ default_cluster = ConfigDefaultCluster
  /\ clusters = [c \in ClusterNames |-> ClusterInstances(c)]
  /\ mgr_lock = << >>

ResolveIdle ==
  /\ r_nodes = Config("A").nodes
  /\ r_default = Login
  /\ r_node = None
  /\ r_host = None

\* models.py line 275: last_command_time defaults to None
NoTime == -1

InteractiveSession_swapped(session_id, job_id, start_time) ==
  [session_id |-> session_id, job_id |-> session_id, start_time |-> start_time,
   status |-> "active", time_remaining |-> None, last_command_time |-> NoTime]

\* models.py lines 260-275; the fields the session manager reads or writes
InteractiveSession(session_id, job_id, start_time) ==
  [session_id |-> session_id, job_id |-> job_id, start_time |-> start_time,
   status |-> "active", time_remaining |-> None, last_command_time |-> NoTime]

\* a caller of the session manager: its position (pc), the operation it called,
\* the locals session_id / session / session_ids / cleaned, the allocation of the
\* remote command it waits for and the scheduler state when that was issued;
\* for a sweep, t0 and alone record when it was called and whether it ran by itself;
\* listed is the local list 'sessions' of list_sessions
IdleSTask ==
  [pc |-> "idle", op |-> "none", session_id |-> 0, session |-> 0, job |-> 0,
   read |-> "none", ids |-> << >>, cleaned |-> 0, t0 |-> 0, alone |-> TRUE,
   listed |-> << >>]

NoSOut == [op |-> "none", id |-> 0, value |-> "none", cleaned |-> 0, listed |-> << >>]

\* InteractiveSessionManager.__init__, lines 40-44 (sessions: the keys of
\* _sessions in insertion order; heap: the session objects by session id)
SessionIdle ==
  /\ sessions = << >>
  /\ heap = << >>
  /\ jobs = << >>
  /\ now = 0
  /\ stask = [t \in Tasks |-> IdleSTask]
  /\ sops = 0
  /\ cancels = {}
  /\ sout = NoSOut

\* no tool request has obtained a session manager
ToolsIdle ==
  /\ managers = << >>
  /\ using = [t \in Tasks |-> 0]

Unused == << >>

NoSubmission == submission = Unused

NoSrunCall == srun_call = Unused

NoPartitionListing == sinfo_p = Unused

NoNodeListing == sinfo_n = Unused

NoGresCall == gres_call = Unused

NoShowJob == show_job = Unused

FunctionsIdle ==
  /\ NoSubmission
  /\ NoSrunCall
  /\ NoPartitionListing
  /\ NoNodeListing
  /\ NoGresCall
  /\ NoShowJob

PoolIdle ==
  /\ initialize
  /\ ssh = << >>
  /\ task = [t \in Tasks |-> IdleTask]
  /\ ops = 0
  /\ ghost = << >>
  /\ outcome = NoOutcome
  /\ handle = [t \in Tasks |-> NoHandle]

Init ==
  /\ PoolIdle
  /\ ResolveIdle
  /\ SessionIdle
  /\ ToolsIdle
  /\ FunctionsIdle

(***************************************************************************)
(* Task bookkeeping: a call returns or raises                              *)
(***************************************************************************)
Return(S, t, value) ==
  [S EXCEPT !.tk[t] = IdleTask, !.out = [op |-> S.tk[t].op, value |-> value]]

Raise(S, t, error) ==
  [S EXCEPT !.tk[t] = IdleTask, !.out = [op |-> S.tk[t].op, value |-> error]]

(***************************************************************************)
(* asyncio.Lock: FIFO; the head of the queue holds the lock                *)
(***************************************************************************)
Acquire(lock, t) == Append(lock, t)

Release(lock) == Tail(lock)

Holds(lock, t) == lock # << >> /\ Head(lock) = t

(***************************************************************************)
(* SSHClient (ssh_client.py)                                               *)
(***************************************************************************)
is_connected_never(client) == FALSE

\* lines 43-46
is_connected(client) == client.connection # 0 /\ ~client.closed

EffectiveTimeout_default(timeout, command_timeout) == command_timeout

\* lines 139-140 (a timeout of 0 stands for None)
EffectiveTimeout(timeout, command_timeout) ==
  IF timeout = 0 THEN command_timeout ELSE timeout

\* execute, lines 146-152: the command is handed to the connection; the call
\* suspends until the command ends, the timeout fires or the connection breaks
execute_run(S, t) ==
  LET x == S.tk[t].client IN
  [S EXCEPT !.tk[t].pc = "running",
            !.tk[t].issued = @ + 1,
            !.tk[t].used = S.ssh[x].connection,
            !.tk[t].timeout = EffectiveTimeout(@, Config(S.ssh[x].cluster).command_timeout)]

\* execute, lines 169-170
execute_timeout(S, t) == Raise(S, t, "SSHCommandError:timeout")

ClearOnError_keep(connection) == connection

\* line 173
ClearOnError(connection) == 0

\* execute, lines 171-174
execute_ssh_error(S, t) ==
  LET x == S.tk[t].client IN
  Raise([S EXCEPT !.ssh[x].connection = ClearOnError(@),
                  !.ssh[x].closed = IF ClearOnError(S.ssh[x].connection) = 0 THEN FALSE ELSE @,
                  !.gh[x].failed = @ \cup {S.tk[t].used}],
        t, "SSHCommandError:ssh")

\* execute, lines 154-167
execute_result(S, t, return_code) ==
  IF S.tk[t].check /\ return_code # 0
  THEN Raise(S, t, "SSHCommandError:check")
  ELSE Return(S, t, IF return_code = 0 THEN "success" ELSE "failed")

(***************************************************************************)
(* ClusterManager.get_cluster_instances (cluster_manager.py)               *)
(***************************************************************************)
ssh_client(instances) ==
  IF instances.current_node # None /\ instances.current_node \in DOMAIN instances.node_connections
  THEN instances.node_connections[instances.current_node].ssh_client
  ELSE 0

NextCurrentNode_sticky(current_node, hostname) ==
  IF current_node # None THEN current_node ELSE hostname

\* line 256
NextCurrentNode(current_node, hostname) == hostname

gci_return_global(S, t) ==
  Return([S EXCEPT !.cl = [k \in DOMAIN S.cl |->
                            [S.cl[k] EXCEPT !.current_node = S.tk[t].hostname]]], t, "ok")

\* lines 255-258
gci_return(S, t) ==
  LET c == S.tk[t].cluster IN
  Return([S EXCEPT !.cl[c].current_node = NextCurrentNode(@, S.tk[t].hostname),
                   !.hd[t] = IF S.tk[t].node = None THEN NoHandle
                             ELSE [cluster |-> c, hostname |-> S.tk[t].hostname]],
         t, "ok")

\* lines 252-253, then the lock is released
gci_connected(S, t) ==
  LET c == S.tk[t].cluster
      h == S.tk[t].hostname
  IN gci_return([S EXCEPT !.cl[c].node_connections[h].connected = TRUE,
                          !.ml = Release(@)], t)

gci_connect_failed_holding(S, t) ==
  LET x == S.tk[t].client IN
  Raise([S EXCEPT !.gh[x].fails = @ + 1], t, "SSHConnectionError")

gci_connect_failed_switching(S, t) ==
  LET x == S.tk[t].client
      c == S.tk[t].cluster
  IN Raise([S EXCEPT !.ml = Release(@), !.gh[x].fails = @ + 1,
                     !.cl[c].current_node = S.tk[t].hostname], t, "SSHConnectionError")

\* connect() raised inside the "async with self._lock" block
gci_connect_failed(S, t) ==
  LET x == S.tk[t].client IN
  Raise([S EXCEPT !.ml = Release(@), !.gh[x].fails = @ + 1], t, "SSHConnectionError")

\* SSHClient.connect returned to its caller
connect_returned(S, t) ==
  IF S.tk[t].ctx = "gci" THEN gci_connected(S, t) ELSE execute_run(S, t)

\* SSHClient.connect raised SSHConnectionError to its caller
connect_raised(S, t) ==
  IF S.tk[t].ctx = "gci" THEN gci_connect_failed(S, t) ELSE Raise(S, t, "SSHConnectionError")

\* SSHClient.connect, lines 54-93, holding self._lock
connect_locked(S, t) ==
  LET x == S.tk[t].client IN
  IF is_connected(S.ssh[x])
  THEN connect_returned([S EXCEPT !.ssh[x].lock = Release(@), !.gh[x].reused = TRUE], t)
  ELSE [S EXCEPT !.tk[t].pc = "ssh_connecting"]

\* SSHClient.connect, line 54
connect(S, t) ==
  LET x == S.tk[t].client IN
  IF S.ssh[x].lock = << >>
  THEN connect_locked([S EXCEPT !.ssh[x].lock = Acquire(@, t)], t)
  ELSE [S EXCEPT !.ssh[x].lock = Acquire(@, t), !.tk[t].pc = "ssh_wait"]

\* asyncssh.connect returned, lines 93-94
connect_established(S, t) ==
  LET x == S.tk[t].client IN
  connect_returned([S EXCEPT !.ssh[x].serial = @ + 1,
                             !.ssh[x].connection = S.ssh[x].serial + 1,
                             !.ssh[x].closed = FALSE,
                             !.ssh[x].lock = Release(@)], t)

\* asyncssh.connect raised, lines 96-99
connect_error(S, t) ==
  LET x == S.tk[t].client IN
  connect_raised([S EXCEPT !.ssh[x].lock = Release(@)], t)

\* SSHClient.ensure_connected and execute, lines 110-113 and 137
execute(S, t) ==
  LET x == S.tk[t].client IN
  IF ~is_connected(S.ssh[x]) THEN connect(S, t) ELSE execute_run(S, t)

ReCheck_skipped(node_conn) == TRUE

\* line 249
ReCheck(node_conn) == ~node_conn.connected

\* lines 249-253
gci_locked(S, t) ==
  LET c == S.tk[t].cluster
      h == S.tk[t].hostname
      x == S.tk[t].client
  IN IF ReCheck(S.cl[c].node_connections[h])
     THEN connect([S EXCEPT !.gh[x].attempts = @ + 1], t)
     ELSE gci_return([S EXCEPT !.ml = Release(@), !.gh[x].skips = @ + 1], t)

\* line 248
gci_acquire(S, t) ==
  IF S.ml = << >>
  THEN gci_locked([S EXCEPT !.ml = Acquire(@, t)], t)
  ELSE [S EXCEPT !.ml = Acquire(@, t), !.tk[t].pc = "mgr_wait"]

ResolveHostname_literal(instances, config, node) ==
  IF get_ssh_host(config.nodes, config.default_node_type, node) = Unresolved /\ node # None
  THEN node
  ELSE get_ssh_host(config.nodes, config.default_node_type, node)

\* line 232
ResolveHostname(instances, config, node) ==
  get_ssh_host(config.nodes, config.default_node_type, node)

HasConnection_never(node_connections, hostname) == FALSE

\* line 235
HasConnection(node_connections, hostname) == hostname \in DOMAIN node_connections

\* lines 236-242 and _create_ssh_client
create_connection(S, c, hostname) ==
  LET x == Len(S.ssh) + 1 IN
  [S EXCEPT !.ssh = Append(@, SSHClient(c, hostname)),
            !.gh = Append(@, NoGhost),
            !.cl[c].node_connections = (hostname :> NodeConnection(hostname, x)) @@ @,
            !.cl[c].order = IF hostname \in DOMAIN S.cl[c].node_connections
                            THEN @ ELSE Append(@, hostname)]

\* lines 218-258
get_cluster_instances(S, t, cluster_name, node) ==
  LET c == IF cluster_name = NoCluster THEN S.dc ELSE cluster_name IN
  IF c = NoCluster \/ c \notin DOMAIN S.cl
  THEN Raise(S, t, "ValueError")
  ELSE
    LET hostname == ResolveHostname(S.cl[c], Config(c), node) IN
    IF hostname = Unresolved
    THEN Raise(S, t, "ValueError")
    ELSE
      LET S1 == IF ~HasConnection(S.cl[c].node_connections, hostname)
                THEN create_connection(S, c, hostname) ELSE S
          x == S1.cl[c].node_connections[hostname].ssh_client
          S2 == [S1 EXCEPT !.tk[t].cluster = c,
                           !.tk[t].hostname = hostname,
                           !.tk[t].client = x,
                           !.tk[t].ctx = "gci",
                           !.tk[t].seen = S.cl[c].current_node,
                           !.gh[x] = IF \E u \in DOMAIN S.tk : u # t /\ S.tk[u].ctx = "gci"
                                                                /\ S.tk[u].client = x
                                     THEN @ ELSE [@ EXCEPT !.attempts = 0, !.fails = 0, !.skips = 0]]
      IN IF ~S2.cl[c].node_connections[hostname].connected
         THEN gci_acquire(S2, t)
         ELSE gci_return(S2, t)

(***************************************************************************)
(* ClusterManager.disconnect_node / disconnect_cluster / disconnect_all    *)
(***************************************************************************)
RECURSIVE disconnect_node(_, _, _, _)
RECURSIVE disc_loop(_, _)

\* disconnect_node returned to its caller (lines 368, 370, 387)
disc_node_return(S, t, value) ==
  IF S.tk[t].op = "disconnect_node" THEN Return(S, t, value) ELSE disc_loop(S, t)

disc_cleared_keeping_current(S, t) ==
  LET c == S.tk[t].cluster
      h == S.tk[t].hostname
      x == S.tk[t].client
  IN disc_node_return(
       [S EXCEPT !.cl[c].node_connections[h].connected = FALSE,
                 !.ml = Release(@),
                 !.gh[x].attempts = 0,
                 !.gh[x].fails = 0,
                 !.gh[x].skips = 0], t, "True")

\* lines 363-367, then the manager lock is released
disc_cleared(S, t) ==
  LET c == S.tk[t].cluster
      h == S.tk[t].hostname
      x == S.tk[t].client
  IN disc_node_return(
       [S EXCEPT !.cl[c].node_connections[h].connected = FALSE,
                 !.cl[c].current_node = IF @ = h THEN None ELSE @,
                 !.ml = Release(@),
                 !.gh[x].attempts = 0,
                 !.gh[x].fails = 0,
                 !.gh[x].skips = 0], t, "True")

\* SSHClient.disconnect, lines 104-106, holding self._lock
disconnect_locked(S, t) ==
  LET x == S.tk[t].client IN
  IF S.ssh[x].connection # 0
  THEN [S EXCEPT !.tk[t].pc = "ssh_closing"]
  ELSE disc_cleared([S EXCEPT !.ssh[x].lock = Release(@), !.gh[x].noop = TRUE], t)

ClearOnClose_keep(connection) == connection

\* line 108
ClearOnClose(connection) == 0

\* SSHClient.disconnect, lines 107-108: wait_closed returned
disconnect_closed(S, t) ==
  LET x == S.tk[t].client IN
  disc_cleared([S EXCEPT !.ssh[x].connection = ClearOnClose(@),
                         !.ssh[x].closed = IF ClearOnClose(S.ssh[x].connection) = 0 THEN FALSE ELSE @,
                         !.ssh[x].lock = Release(@)], t)

\* SSHClient.disconnect, line 103
disconnect(S, t) ==
  LET x == S.tk[t].client IN
  IF S.ssh[x].lock = << >>
  THEN disconnect_locked([S EXCEPT !.ssh[x].lock = Acquire(@, t)], t)
  ELSE [S EXCEPT !.ssh[x].lock = Acquire(@, t), !.tk[t].pc = "ssh_wait"]

disc_locked_nothing(S, t) == disc_node_return([S EXCEPT !.ml = Release(@)], t, "True")

\* lines 361-362
disc_locked(S, t) ==
  LET c == S.tk[t].cluster
      h == S.tk[t].hostname
  IN IF S.cl[c].node_connections[h].connected
     THEN disconnect(S, t)
     ELSE disc_node_return([S EXCEPT !.ml = Release(@)], t, "True")

\* line 360
disc_acquire(S, t) ==
  IF S.ml = << >>
  THEN disc_locked([S EXCEPT !.ml = Acquire(@, t)], t)
  ELSE [S EXCEPT !.ml = Acquire(@, t), !.tk[t].pc = "mgr_wait"]

\* lines 352-370
disconnect_node(S, t, cluster_name, hostname) ==
  IF cluster_name \notin DOMAIN S.cl
  THEN disc_node_return(S, t, "False")
  ELSE IF hostname \in DOMAIN S.cl[cluster_name].node_connections
  THEN LET node_conn == S.cl[cluster_name].node_connections[hostname]
           S1 == [S EXCEPT !.tk[t].cluster = cluster_name,
                           !.tk[t].hostname = hostname,
                           !.tk[t].client = node_conn.ssh_client,
                           !.tk[t].ctx = "disc"]
       IN IF node_conn.connected THEN disc_acquire(S1, t)
          ELSE disc_node_return(S1, t, "True")
  ELSE disc_node_return(S, t, "False")

\* the loops of disconnect_cluster (lines 386-389) and disconnect_all (393-394)
disc_loop(S, t) ==
  IF S.tk[t].hlist # << >>
  THEN disconnect_node([S EXCEPT !.tk[t].hlist = Tail(@)], t,
                       S.tk[t].cluster, Head(S.tk[t].hlist))
  ELSE IF S.tk[t].op = "disconnect_all" /\ S.tk[t].clist # << >>
  THEN LET c == Head(S.tk[t].clist) IN
       disc_loop([S EXCEPT !.tk[t].clist = Tail(@),
                           !.tk[t].cluster = c,
                           !.tk[t].hlist = S.cl[c].order], t)
  ELSE Return(S, t, IF S.tk[t].op = "disconnect_all" THEN "disconnected" ELSE "True")

\* lines 381-389
disconnect_cluster(S, t, cluster_name) ==
  IF cluster_name \notin DOMAIN S.cl
  THEN Return(S, t, "False")
  ELSE disc_loop([S EXCEPT !.tk[t].cluster = cluster_name,
                           !.tk[t].hlist = S.cl[cluster_name].order], t)

\* lines 393-394
disconnect_all(S, t) ==
  disc_loop([S EXCEPT !.tk[t].clist = ClusterOrder], t)

\* lines 405-408
set_default_cluster(S, t, cluster_name) ==
  IF cluster_name \notin DOMAIN S.cl
  THEN Raise(S, t, "ValueError")
  ELSE Return([S EXCEPT !.dc = cluster_name], t, "set")

(***************************************************************************)
(* Inputs                                                                  *)
(***************************************************************************)
Login1 == Login \o <<":", "1">>
Login7 == Login \o <<":", "7">>
Zed == <<"z">>

NodeInputs == {None, Login, Data, Login7, Vscode, Zed}
ClusterInputs == {NoCluster, "A", "B", "Z"}
HostInputs == {A1, A2, A3, B1}
TimeoutInputs == {0, 2}
Durations == {1, 30, 90}
ReturnCodes == {0, 1}

(***************************************************************************)
(* Calls: a task runs an operation without interruption up to its first    *)
(* suspension point (cooperative scheduling)                               *)
(***************************************************************************)
CanCall(t) == task[t].pc = "idle" /\ ops < MaxOps

Called == ops' = ops + 1 /\ UNCHANGED <<rvars, svars, tvars, fvars>>

Resumed == UNCHANGED <<ops, rvars, svars, tvars, fvars>>

\* for disconnect_cluster and disconnect_all, alone records that no
\* get_cluster_instances call has run at any time during the call
Begin(t, op, cluster, node, hostname) ==
  [St EXCEPT !.hd[t] = IF op = "execute" THEN @ ELSE NoHandle,
             !.tk = [u \in Tasks |->
     IF u = t
     THEN [IdleTask EXCEPT !.pc = "run", !.op = op, !.cluster = cluster,
                           !.node = node, !.hostname = hostname,
                           !.alone = op \in {"disconnect_cluster", "disconnect_all"} =>
                                       \A v \in Tasks \ {t} :
                                         task[v].op # "get_cluster_instances"]
     ELSE IF op = "get_cluster_instances"
             /\ task[u].op \in {"disconnect_cluster", "disconnect_all"}
     THEN [task[u] EXCEPT !.alone = FALSE]
     ELSE task[u]]]

Running(t) == [St EXCEPT !.tk[t].pc = "run"]

CallGetClusterInstances(t, cluster_name, node) ==
  /\ CanCall(t)
  /\ Commit(get_cluster_instances(Begin(t, "get_cluster_instances", cluster_name, node, None),
                                  t, cluster_name, node))
  /\ Called

CallDisconnectNode(t, cluster_name, hostname) ==
  /\ CanCall(t)
  /\ Commit(disconnect_node(Begin(t, "disconnect_node", cluster_name, None, hostname),
                            t, cluster_name, hostname))
  /\ Called

CallDisconnectCluster(t, cluster_name) ==
  /\ CanCall(t)
  /\ Commit(disconnect_cluster(Begin(t, "disconnect_cluster", cluster_name, None, None),
                               t, cluster_name))
  /\ Called

CallSetDefaultCluster(t, cluster_name) ==
  /\ CanCall(t)
  /\ Commit(set_default_cluster(Begin(t, "set_default_cluster", cluster_name, None, None),
                                t, cluster_name))
  /\ Called

\* a caller runs a command through instances.ssh_client of cluster c
CallExecute(t, c, timeout, check) ==
  /\ CanCall(t)
  /\ ssh_client(clusters[c]) # 0
  /\ LET S0 == Begin(t, "execute", c, None, clusters[c].current_node)
     IN Commit(execute([S0 EXCEPT !.tk[t].client = ssh_client(clusters[c]),
                                  !.tk[t].ctx = "exec",
                                  !.tk[t].timeout = timeout,
                                  !.tk[t].check = check], t))
  /\ Called

GetClusterInstances(t) ==
  \E cluster_name \in ClusterInputs, node \in NodeInputs :
    CallGetClusterInstances(t, cluster_name, node)

DisconnectNode(t) ==
  \E cluster_name \in ClusterInputs \ {NoCluster}, hostname \in HostInputs :
    CallDisconnectNode(t, cluster_name, hostname)

DisconnectCluster(t) ==
  \E cluster_name \in ClusterInputs \ {NoCluster} : CallDisconnectCluster(t, cluster_name)

DisconnectAll(t) ==
  /\ CanCall(t)
  /\ Commit(disconnect_all(Begin(t, "disconnect_all", NoCluster, None, None), t))
  /\ Called

SetDefaultCluster(t) ==
  \E cluster_name \in ClusterInputs \ {NoCluster} : CallSetDefaultCluster(t, cluster_name)

Execute(t) ==
  \E c \in ClusterNames, timeout \in TimeoutInputs, check \in BOOLEAN :
    CallExecute(t, c, timeout, check)

(***************************************************************************)
(* Resumptions at the suspension points                                    *)
(***************************************************************************)
MgrLockGranted(t) ==
  /\ task[t].pc = "mgr_wait"
  /\ Holds(mgr_lock, t)
  /\ Commit(IF task[t].ctx = "gci"
            THEN gci_locked(Running(t), t)
            ELSE disc_locked(Running(t), t))
  /\ Resumed

SSHLockGranted(t) ==
  /\ task[t].pc = "ssh_wait"
  /\ Holds(ssh[task[t].client].lock, t)
  /\ Commit(IF task[t].ctx = "disc"
            THEN disconnect_locked(Running(t), t)
            ELSE connect_locked(Running(t), t))
  /\ Resumed

ConnectSucceeds(t) ==
  /\ task[t].pc = "ssh_connecting"
  /\ Commit(connect_established(Running(t), t))
  /\ Resumed

ConnectFails(t) ==
  /\ task[t].pc = "ssh_connecting"
  /\ Commit(connect_error(Running(t), t))
  /\ Resumed

CloseCompletes(t) ==
  /\ task[t].pc = "ssh_closing"
  /\ Commit(disconnect_closed(Running(t), t))
  /\ Resumed

CommandCompletes(t) ==
  /\ task[t].pc = "running"
  /\ \E d \in Durations, return_code \in ReturnCodes :
       /\ d <= task[t].timeout
       /\ Commit(execute_result(St, t, return_code))
  /\ Resumed

CommandTimesOut(t) ==
  /\ task[t].pc = "running"
  /\ \E d \in Durations :
       /\ d > task[t].timeout
       /\ Commit(execute_timeout(St, t))
  /\ Resumed

CommandBreaks(t) ==
  /\ task[t].pc = "running"
  /\ Commit(execute_ssh_error(St, t))
  /\ Resumed

\* the remote end drops an established connection
ConnectionLost(x) ==
  /\ ssh[x].connection # 0
  /\ ~ssh[x].closed
  /\ ssh' = [ssh EXCEPT ![x].closed = TRUE]
  /\ UNCHANGED <<clusters, default_cluster, mgr_lock, task, ops, ghost, outcome, handle,
                 rvars, svars, tvars, fvars>>

Next ==
  \/ \E t \in Tasks : GetClusterInstances(t)
  \/ \E t \in Tasks : DisconnectNode(t)
  \/ \E t \in Tasks : DisconnectCluster(t)
  \/ \E t \in Tasks : DisconnectAll(t)
  \/ \E t \in Tasks : SetDefaultCluster(t)
  \/ \E t \in Tasks : Execute(t)
  \/ \E t \in Tasks : MgrLockGranted(t)
  \/ \E t \in Tasks : SSHLockGranted(t)
  \/ \E t \in Tasks : ConnectSucceeds(t)
  \/ \E t \in Tasks : ConnectFails(t)
  \/ \E t \in Tasks : CloseCompletes(t)
  \/ \E t \in Tasks : CommandCompletes(t)
  \/ \E t \in Tasks : CommandTimesOut(t)
  \/ \E t \in Tasks : CommandBreaks(t)
  \/ \E x \in DOMAIN ssh : ConnectionLost(x)

Spec == Init /\ [][Next]_vars

\* The event loop resumes a task whose lock has been granted, and every transport
\* connect and close call terminates.
Fairness(t) ==
  WF_vars(\/ MgrLockGranted(t) \/ SSHLockGranted(t)
          \/ ConnectSucceeds(t) \/ ConnectFails(t)
          \/ CloseCompletes(t))

SpecFair == Spec /\ \A t \in Tasks : Fairness(t)

(***************************************************************************)
(* The default cluster over the configurations that can be loaded          *)
(* (config.py: MultiClusterConfig; cluster_manager.py: initialize, the     *)
(* default_cluster setter and set_default_cluster).  A configuration is    *)
(* its default_cluster and the names of its clusters, in order.            *)
(***************************************************************************)
Names(list) == {list[i] : i \in 1..Len(list)}

\* MultiClusterConfig.validate_clusters, config.py lines 420-439: the
\* configuration as it is after validation, or rejected
validate_clusters(cfg) ==
  IF cfg.clusters = << >> THEN [valid |-> TRUE, config |-> cfg]
  ELSE IF \E i, j \in 1..Len(cfg.clusters) : i # j /\ cfg.clusters[i] = cfg.clusters[j]
  THEN [valid |-> FALSE, config |-> cfg]
  ELSE LET default == IF cfg.default_cluster = NoCluster THEN cfg.clusters[1]
                      ELSE cfg.default_cluster
       IN IF default \notin Names(cfg.clusters)
          THEN [valid |-> FALSE, config |-> cfg]
          ELSE [valid |-> TRUE, config |-> [cfg EXCEPT !.default_cluster = default]]

ClusterLists ==
  {<<"A", "B", "Z">>} \union
  UNION {[1..n -> {"A", "B", "Z"}] : n \in 0..2}

\* what a clusters.json may say
ConfigFiles == [default_cluster : ClusterInputs, clusters : ClusterLists]

\* the configurations MultiClusterConfig(**data) constructs
LoadedConfigs ==
  {validate_clusters(cfg).config : cfg \in {f \in ConfigFiles : validate_clusters(f).valid}}

\* initialize, cluster_manager.py lines 158-177, for a loaded configuration
initialize_from(cfg) ==
  /\ default_cluster = cfg.default_cluster
  /\ clusters = [c \in Names(cfg.clusters) |-> ClusterInstances(c)]
  /\ mgr_lock = << >>

\* the default_cluster setter, lines 136-148 (the names of the configuration are
\* the keys of _clusters: initialize makes one entry per configured cluster)
default_cluster_setter(S, t, cluster_name) ==
  IF cluster_name \notin DOMAIN S.cl
  THEN Raise(S, t, "ValueError")
  ELSE Return([S EXCEPT !.dc = cluster_name], t, "set")

CallDefaultClusterSetter(t, cluster_name) ==
  /\ CanCall(t)
  /\ Commit(default_cluster_setter(Begin(t, "default_cluster", cluster_name, None, None),
                                   t, cluster_name))
  /\ Called

DefaultClusterSetter(t) ==
  \E cluster_name \in ClusterInputs \ {NoCluster} : CallDefaultClusterSetter(t, cluster_name)

DefaultInit ==
  /\ \E cfg \in LoadedConfigs : initialize_from(cfg)
  /\ ssh = << >>
  /\ task = [t \in Tasks |-> IdleTask]
  /\ ops = 0
  /\ ghost = << >>
  /\ outcome = NoOutcome
  /\ handle = [t \in Tasks |-> NoHandle]
  /\ ResolveIdle
  /\ SessionIdle
  /\ ToolsIdle
  /\ FunctionsIdle

DefaultNext ==
  \/ \E t \in Tasks : SetDefaultCluster(t)
  \/ \E t \in Tasks : DefaultClusterSetter(t)

SpecDefault == DefaultInit /\ [][DefaultNext]_vars

(***************************************************************************)
(* Node resolution as a pure function: role maps and specifiers are drawn  *)
(* from bounded sets and get_ssh_host is applied to them                   *)
(***************************************************************************)
H1 == <<"h", "1">>
H2 == <<"h", "2">>
H3 == <<"h", "3">>
Other == <<"o", ".", "x">>

RoleMaps ==
  {ClusterNodes(l, d, v) : l \in {<< >>, <<H1>>, <<H1, H2>>, <<Data, H2>>},
                           d \in {<< >>, <<H3>>, <<H3, H1>>},
                           v \in {<< >>, <<A1>>}}

Specifiers ==
  {None, Login, Data, Vscode, Login \o <<":", "0">>, Login1, Login7, Data \o <<":", "1">>,
   Zed \o <<":", "0">>, Login \o <<":">>, H1, H2, H3, A1, Other, Zed}

ResolveInit ==
  /\ PoolIdle
  /\ SessionIdle
  /\ ToolsIdle
  /\ FunctionsIdle
  /\ r_nodes \in RoleMaps
  /\ r_default \in NodeTypes
  /\ r_node = None
  /\ r_host = None

Resolve ==
  /\ \E node \in Specifiers :
       /\ r_node' = node
       /\ r_host' = get_ssh_host(r_nodes, r_default, node)
  /\ UNCHANGED <<pvars, svars, tvars, fvars, r_nodes, r_default>>

SpecResolve == ResolveInit /\ [][Resolve]_vars

(***************************************************************************)
(* Scheduler commands used by the session manager (slurm_commands.py).     *)
(* A command's output is the sequence of its words.                        *)
(***************************************************************************)
Succeeded_always(result) == TRUE

\* CommandResult.success: the exit code is zero
Succeeded(result) == result.returncode = 0

Granted(n) == <<"salloc:", "Granted", "job", "allocation", DigitChar(n)>>
Queued(n) == <<"salloc:", "Pending", "job", "allocation", DigitChar(n)>>
Refused == <<"salloc:", "error:", "Job", "submit", "failed">>

\* the positions at which 'Granted job allocation (\d+)' matches
GrantedAt(output) ==
  {i \in 1..(Len(output) - 3) :
     /\ output[i] = "Granted" /\ output[i + 1] = "job" /\ output[i + 2] = "allocation"
     /\ output[i + 3] \in Digits}

\* salloc, lines 966-978: the job id, or the error raised
salloc(result) ==
  IF ~Succeeded(result) THEN [error |-> "SSHCommandError:salloc", job_id |-> 0]
  ELSE IF GrantedAt(result.output) # {}
  THEN LET i == CHOOSE i \in GrantedAt(result.output) :
                   \A j \in GrantedAt(result.output) : i <= j
       IN [error |-> "none", job_id |-> DigitVal(result.output[i + 3])]
  ELSE [error |-> "SSHCommandError:parse", job_id |-> 0]

NoJobInfo == [found |-> FALSE, state |-> "UNKNOWN", time_remaining |-> None]

\* get_job_details, lines 554-620: None unless the command succeeded; the
\* JobInfo it builds carries the JobState and no time_remaining
get_job_details(result) ==
  IF ~Succeeded(result) THEN NoJobInfo
  ELSE [found |-> TRUE, state |-> result.state, time_remaining |-> None]

\* scancel, lines 699-700
scancel(result) == Succeeded(result)

(***************************************************************************)
(* InteractiveSessionManager (interactive.py).  No "async with self._lock" *)
(* block contains an await, so under cooperative scheduling the lock is    *)
(* free whenever a task runs and each block executes without interruption. *)
(***************************************************************************)
SSt == [tb |-> sessions, hp |-> heap, jb |-> jobs, tk |-> stask, cn |-> cancels,
        out |-> sout]

SCommit(S) ==
  /\ sessions' = S.tb
  /\ heap' = S.hp
  /\ jobs' = S.jb
  /\ stask' = S.tk
  /\ cancels' = S.cn
  /\ sout' = S.out

SReturn(S, t, value) ==
  [S EXCEPT !.tk[t] = IdleSTask,
            !.out = [op |-> S.tk[t].op, id |-> S.tk[t].session_id, value |-> value,
                     cleaned |-> S.tk[t].cleaned, listed |-> S.tk[t].listed]]

SRaise(S, t, error) ==
  [S EXCEPT !.tk[t] = IdleSTask,
            !.out = [op |-> S.tk[t].op, id |-> S.tk[t].session_id, value |-> error,
                     cleaned |-> S.tk[t].cleaned, listed |-> S.tk[t].listed]]

\* session_id in self._sessions
Listed(table, id) == \E i \in 1..Len(table) : table[i] = id

Remove_kept(table, id) == table

\* del self._sessions[session_id]
Remove(table, id) == SelectSeq(table, LAMBDA k : k # id)

\* lines 195-197 and 222-224
drop(S, id) ==
  IF Listed(S.tb, id)
  THEN [S EXCEPT !.hp[id].status = "ended", !.tb = Remove(@, id)]
  ELSE S

RECURSIVE cleanup_loop(_, _)

RECURSIVE list_loop(_, _)

\* end_session returned to its caller (line 199; lines 271-272)
end_session_return(S, t, success) ==
  IF S.tk[t].op = "end_session"
  THEN SReturn(S, t, IF success THEN "True" ELSE "False")
  ELSE cleanup_loop([S EXCEPT !.tk[t].cleaned = @ + 1], t)

\* lines 194-199: scancel returned
end_session_finish(S, t, success) ==
  end_session_return(drop(S, S.tk[t].session_id), t, success)

\* lines 183-192
end_session(S, t, session_id) ==
  IF ~Listed(S.tb, session_id)
  THEN end_session_return(S, t, FALSE)
  ELSE [S EXCEPT !.tk[t].pc = "scancel",
                 !.tk[t].session = session_id,
                 !.tk[t].job = S.hp[session_id].job_id,
                 !.cn = @ \cup {S.hp[session_id].job_id}]

\* lines 264-272
cleanup_checked(S, t, session) ==
  IF session = 0
  THEN cleanup_loop([S EXCEPT !.tk[t].cleaned = @ + 1], t)
  ELSE IF /\ S.hp[session].last_command_time # NoTime
          /\ now - S.hp[session].last_command_time > InteractiveSessionTimeout
  THEN end_session(S, t, S.tk[t].session_id)
  ELSE cleanup_loop(S, t)

IsActive_any(session) == TRUE

\* line 153
IsActive(session) == session.status = "active"

\* lines 150-165
exec_checked(S, t, session) ==
  IF session = 0 THEN SRaise(S, t, "ValueError:not_found")
  ELSE IF ~IsActive(S.hp[session]) THEN SRaise(S, t, "ValueError:not_active")
  ELSE [S EXCEPT !.tk[t].pc = "srun",
                 !.tk[t].session = session,
                 !.tk[t].job = S.hp[session].job_id]

\* lines 248-249
list_checked(S, t, session) ==
  list_loop(IF session = 0 THEN S ELSE [S EXCEPT !.tk[t].listed = Append(@, session)], t)

\* get_session returned to its caller (0 stands for None)
get_session_return(S, t, session) ==
  IF S.tk[t].op = "get_session"
  THEN SReturn(S, t, IF session = 0 THEN "None" ELSE S.hp[session].status)
  ELSE IF S.tk[t].op = "exec_command" THEN exec_checked(S, t, session)
  ELSE IF S.tk[t].op = "list_sessions" THEN list_checked(S, t, session)
  ELSE cleanup_checked(S, t, session)

Ended_pending(job_info) == ~job_info.found \/ job_info.state # "RUNNING"

\* line 219
Ended(job_info) == ~job_info.found \/ job_info.state \notin {"RUNNING", "PENDING"}

\* lines 219-234: get_job_details returned
get_session_checked(S, t, job_info) ==
  LET id == S.tk[t].session_id IN
  IF Ended(job_info)
  THEN get_session_return(drop(S, id), t, 0)
  ELSE IF job_info.time_remaining # None /\ Listed(S.tb, id)
  THEN get_session_return([S EXCEPT !.hp[id].time_remaining = job_info.time_remaining],
                          t, id)
  ELSE get_session_return(S, t, S.tk[t].session)

\* lines 210-217
get_session(S, t, session_id) ==
  IF ~Listed(S.tb, session_id)
  THEN get_session_return(S, t, 0)
  ELSE [S EXCEPT !.tk[t].pc = "details",
                 !.tk[t].session = session_id,
                 !.tk[t].job = S.hp[session_id].job_id,
                 !.tk[t].read = S.jb[S.hp[session_id].job_id]]

\* lines 262-274
cleanup_loop(S, t) ==
  IF S.tk[t].ids = << >>
  THEN SReturn(S, t, "cleaned")
  ELSE get_session([S EXCEPT !.tk[t].ids = Tail(@),
                             !.tk[t].session_id = Head(S.tk[t].ids)],
                   t, Head(S.tk[t].ids))

\* lines 259-260
cleanup_stale_sessions(S, t) ==
  cleanup_loop([S EXCEPT !.tk[t].ids = S.tb, !.tk[t].cleaned = 0], t)

\* lines 246-251
list_loop(S, t) ==
  IF S.tk[t].ids = << >>
  THEN SReturn(S, t, "listed")
  ELSE get_session([S EXCEPT !.tk[t].ids = Tail(@),
                             !.tk[t].session_id = Head(S.tk[t].ids)],
                   t, Head(S.tk[t].ids))

\* lines 243-244
list_sessions(S, t) == list_loop([S EXCEPT !.tk[t].ids = S.tb], t)

\* line 149
exec_command(S, t, session_id) == get_session(S, t, session_id)

StillListed_always(table, id) == TRUE

\* line 169
StillListed(table, id) == Listed(table, id)

NextLastCommandTime_kept(last_command_time, current) == last_command_time

\* line 170
NextLastCommandTime(last_command_time, current) == current

\* lines 167-172: srun_in_allocation returned
exec_update(S, t, result) ==
  LET id == S.tk[t].session_id
      S1 == IF StillListed(S.tb, id)
            THEN [S EXCEPT !.hp[id].last_command_time = NextLastCommandTime(@, now)]
            ELSE S
  IN SReturn(S1, t, IF Succeeded(result) THEN "success" ELSE "failed")

\* lines 77-98: the allocate command is issued
start_session(S, t) == [S EXCEPT !.tk[t].pc = "salloc"]

\* lines 91-103: salloc returned or raised
start_allocated(S, t, result) ==
  LET a == salloc(result) IN
  IF a.error # "none" THEN SRaise(S, t, a.error)
  ELSE [S EXCEPT !.tk[t].pc = "details_new",
                 !.tk[t].job = a.job_id,
                 !.tk[t].read = S.jb[a.job_id]]

\* lines 104-125 (the session id of line 77 is unique: the next unused one)
start_register(S, t, job_info) ==
  LET id == Len(S.hp) + 1 IN
  SReturn([S EXCEPT !.hp = Append(@, InteractiveSession(id, S.tk[t].job, now)),
                    !.tb = Append(@, id),
                    !.tk[t].session_id = id], t, "active")

(***************************************************************************)
(* Calls of the session manager and the resumptions of its remote commands *)
(***************************************************************************)
SessionIds == 1..MaxSessions

RemotePcs == {"salloc", "details_new", "details", "srun", "scancel"}

CanCallS(t) == stask[t].pc = "idle" /\ sops < MaxCalls

SCalled == sops' = sops + 1 /\ UNCHANGED <<now, pvars, rvars, tvars, fvars>>

SResumed == UNCHANGED <<sops, now, pvars, rvars, tvars, fvars>>

SBegin(t, op, session_id) ==
  [SSt EXCEPT !.tk = [u \in Tasks |->
     IF u = t
     THEN [IdleSTask EXCEPT !.pc = "run", !.op = op, !.session_id = session_id,
                            !.t0 = IF op = "cleanup_stale_sessions" THEN now ELSE 0,
                            !.alone = op = "cleanup_stale_sessions" =>
                                        \A v \in Tasks \ {t} : stask[v].pc = "idle"]
     ELSE IF stask[u].op # "cleanup_stale_sessions" THEN stask[u]
     ELSE [stask[u] EXCEPT !.alone = FALSE]]]

CallStartSession(t) ==
  /\ CanCallS(t)
  /\ Len(jobs) + Cardinality({u \in Tasks : stask[u].pc = "salloc"}) < MaxSessions
  /\ SCommit(start_session(SBegin(t, "start_session", 0), t))
  /\ SCalled

CallExecCommand(t, session_id) ==
  /\ CanCallS(t)
  /\ SCommit(exec_command(SBegin(t, "exec_command", session_id), t, session_id))
  /\ SCalled

CallEndSession(t, session_id) ==
  /\ CanCallS(t)
  /\ SCommit(end_session(SBegin(t, "end_session", session_id), t, session_id))
  /\ SCalled

CallGetSession(t, session_id) ==
  /\ CanCallS(t)
  /\ SCommit(get_session(SBegin(t, "get_session", session_id), t, session_id))
  /\ SCalled

CallListSessions(t) ==
  /\ CanCallS(t)
  /\ SCommit(list_sessions(SBegin(t, "list_sessions", 0), t))
  /\ SCalled

CallCleanup(t) ==
  /\ CanCallS(t)
  /\ SCommit(cleanup_stale_sessions(SBegin(t, "cleanup_stale_sessions", 0), t))
  /\ SCalled

StartSession(t) == CallStartSession(t)

ExecCommand(t) == \E session_id \in SessionIds : CallExecCommand(t, session_id)

EndSession(t) == \E session_id \in SessionIds : CallEndSession(t, session_id)

GetSession(t) == \E session_id \in SessionIds : CallGetSession(t, session_id)

ListSessions(t) == CallListSessions(t)

CleanupStaleSessions(t) == CallCleanup(t)

\* what the allocate command can answer; the scheduler has created the
\* allocation when the answer names it as granted
SallocResults ==
  {[returncode |-> 0, output |-> Granted(Len(jobs) + 1)],
   [returncode |-> 1, output |-> Granted(Len(jobs) + 1)],
   [returncode |-> 0, output |-> Queued(Len(jobs) + 1)],
   [returncode |-> 1, output |-> Refused]}

SallocReturns(t, result) ==
  /\ stask[t].pc = "salloc"
  /\ SCommit(start_allocated(
       [SSt EXCEPT !.jb = IF result.output = Granted(Len(jobs) + 1)
                          THEN Append(@, "RUNNING") ELSE @], t, result))
  /\ SResumed

SallocCompletes(t) == \E result \in SallocResults : SallocReturns(t, result)

\* scontrol show job answers with the state the allocation had when the command
\* was issued or the state it has when the command returns
DetailsResults(t) ==
  {[returncode |-> rc, state |-> st] :
     rc \in ReturnCodes, st \in {stask[t].read, jobs[stask[t].job]}}

DetailsReturns(t, result) ==
  /\ stask[t].pc \in {"details_new", "details"}
  /\ result \in DetailsResults(t)
  /\ SCommit(IF stask[t].pc = "details_new"
             THEN start_register(SSt, t, get_job_details(result))
             ELSE get_session_checked(SSt, t, get_job_details(result)))
  /\ SResumed

DetailsCompletes(t) ==
  \E rc \in ReturnCodes, st \in {"RUNNING", "PENDING", "COMPLETED", "CANCELLED"} :
    DetailsReturns(t, [returncode |-> rc, state |-> st])

SrunReturns(t, result) ==
  /\ stask[t].pc = "srun"
  /\ SCommit(exec_update(SSt, t, result))
  /\ SResumed

SrunCompletes(t) == \E rc \in ReturnCodes : SrunReturns(t, [returncode |-> rc])

\* a successful scancel ends the allocation
ScancelReturns(t, result) ==
  /\ stask[t].pc = "scancel"
  /\ SCommit(end_session_finish(
       [SSt EXCEPT !.jb[stask[t].job] =
          IF Succeeded(result) /\ @ \in {"RUNNING", "PENDING"} THEN "CANCELLED" ELSE @],
       t, scancel(result)))
  /\ SResumed

ScancelCompletes(t) == \E rc \in ReturnCodes : ScancelReturns(t, [returncode |-> rc])

\* ssh.execute raised (timeout or transport failure); no caller catches it
RemoteFails(t) ==
  /\ stask[t].pc \in RemotePcs
  /\ SCommit(SRaise(SSt, t, "SSHCommandError"))
  /\ SResumed

\* the scheduler ends or requeues an allocation
JobEnds(j) ==
  /\ jobs[j] \in {"RUNNING", "PENDING"}
  /\ jobs' = [jobs EXCEPT ![j] = "COMPLETED"]
  /\ UNCHANGED <<sessions, heap, now, stask, sops, cancels, sout, pvars, rvars, tvars, fvars>>

JobRequeued(j) ==
  /\ jobs[j] = "RUNNING"
  /\ jobs' = [jobs EXCEPT ![j] = "PENDING"]
  /\ UNCHANGED <<sessions, heap, now, stask, sops, cancels, sout, pvars, rvars, tvars, fvars>>

\* time passes (datetime.now); the clock starts with the first session
Tick ==
  /\ heap # << >>
  /\ \E d \in {InteractiveSessionTimeout, InteractiveSessionTimeout + 1} :
       /\ now + d <= MaxTicks * (InteractiveSessionTimeout + 1)
       /\ now' = now + d
  /\ UNCHANGED <<sessions, heap, jobs, stask, sops, cancels, sout, pvars, rvars, tvars, fvars>>

SessionNext ==
  \/ \E t \in Tasks : StartSession(t)
  \/ \E t \in Tasks : ExecCommand(t)
  \/ \E t \in Tasks : EndSession(t)
  \/ \E t \in Tasks : GetSession(t)
  \/ \E t \in Tasks : ListSessions(t)
  \/ \E t \in Tasks : CleanupStaleSessions(t)
  \/ \E t \in Tasks : SallocCompletes(t)
  \/ \E t \in Tasks : DetailsCompletes(t)
  \/ \E t \in Tasks : SrunCompletes(t)
  \/ \E t \in Tasks : ScancelCompletes(t)
  \/ \E t \in Tasks : RemoteFails(t)
  \/ \E j \in DOMAIN jobs : JobEnds(j)
  \/ \E j \in DOMAIN jobs : JobRequeued(j)
  \/ Tick

SpecSession == Init /\ [][SessionNext]_vars

(***************************************************************************)
(* The session tools of the server (server.py): every request reads        *)
(* instances.session_manager and calls one method of the manager it gets.  *)
(* managers holds the table of every manager constructed so far; session   *)
(* objects, allocations and callers are those of the session manager above *)
(***************************************************************************)
\* ClusterInstances.session_manager, lines 64-69: each access constructs an
\* InteractiveSessionManager, whose table starts empty (interactive.py line 43);
\* the manager obtained is the last one
session_manager(mgrs) == Append(mgrs, << >>)

ToolCommit(mgrs, m, S) ==
  /\ managers' = [mgrs EXCEPT ![m] = S.tb]
  /\ heap' = S.hp
  /\ jobs' = S.jb
  /\ stask' = S.tk
  /\ cancels' = S.cn
  /\ sout' = S.out

\* the method a tool calls on the manager
Method(S, t, op, session_id) ==
  IF op = "start_session" THEN start_session(S, t)
  ELSE IF op = "exec_command" THEN exec_command(S, t, session_id)
  ELSE IF op = "list_sessions" THEN list_sessions(S, t)
  ELSE IF op = "end_session" THEN end_session(S, t, session_id)
  ELSE get_session(S, t, session_id)

\* "instances = await get_cluster_instances(cluster); sessions =
\* instances.session_manager; await sessions.<op>(...)"
ToolCall(t, op, session_id) ==
  /\ CanCallS(t)
  /\ LET mgrs == session_manager(managers)
         m == Len(mgrs)
     IN /\ ToolCommit(mgrs, m,
             Method([SBegin(t, op, session_id) EXCEPT !.tb = mgrs[m]], t, op, session_id))
        /\ using' = [using EXCEPT ![t] = m]
  /\ sops' = sops + 1
  /\ UNCHANGED <<sessions, now, pvars, rvars, fvars>>

start_interactive_session(t) ==
  /\ Len(jobs) + Cardinality({u \in Tasks : stask[u].pc = "salloc"}) < MaxSessions
  /\ ToolCall(t, "start_session", 0)

exec_in_session(t) == \E session_id \in SessionIds : ToolCall(t, "exec_command", session_id)

list_interactive_sessions(t) == ToolCall(t, "list_sessions", 0)

end_interactive_session(t) ==
  \E session_id \in SessionIds : ToolCall(t, "end_session", session_id)

get_interactive_session_info(t) ==
  \E session_id \in SessionIds : ToolCall(t, "get_session", session_id)

\* what the remote command a request waits for can do to the request's manager
ToolOutcomes(S, t) ==
  LET pc == stask[t].pc IN
  {SRaise(S, t, "SSHCommandError")} \cup
  (IF pc = "salloc"
   THEN {start_allocated([S EXCEPT !.jb = IF r.output = Granted(Len(jobs) + 1)
                                          THEN Append(@, "RUNNING") ELSE @], t, r) :
           r \in SallocResults}
   ELSE IF pc = "details_new"
   THEN {start_register(S, t, get_job_details(r)) : r \in DetailsResults(t)}
   ELSE IF pc = "details"
   THEN {get_session_checked(S, t, get_job_details(r)) : r \in DetailsResults(t)}
   ELSE IF pc = "srun"
   THEN {exec_update(S, t, [returncode |-> rc]) : rc \in ReturnCodes}
   ELSE {end_session_finish(
           [S EXCEPT !.jb[stask[t].job] =
              IF rc = 0 /\ @ \in {"RUNNING", "PENDING"} THEN "CANCELLED" ELSE @],
           t, scancel([returncode |-> rc])) : rc \in ReturnCodes})

\* the remote command of a request returns or raises
ToolResumes(t) ==
  /\ stask[t].pc \in RemotePcs
  /\ \E S \in ToolOutcomes([SSt EXCEPT !.tb = managers[using[t]]], t) :
       ToolCommit(managers, using[t], S)
  /\ UNCHANGED <<sessions, now, sops, using, pvars, rvars, fvars>>

ToolsNext ==
  \/ \E t \in Tasks : start_interactive_session(t)
  \/ \E t \in Tasks : exec_in_session(t)
  \/ \E t \in Tasks : list_interactive_sessions(t)
  \/ \E t \in Tasks : end_interactive_session(t)
  \/ \E t \in Tasks : get_interactive_session_info(t)
  \/ \E t \in Tasks : ToolResumes(t)
  \/ \E j \in DOMAIN jobs : JobEnds(j)

SpecTools == Init /\ [][ToolsNext]_vars

(***************************************************************************)
(* Text of scheduler output: Python's str operations on TLA+ strings       *)
(***************************************************************************)
Chr(s, i) == SubSeq(s, i, i)

DigitChars == "0123456789"

IsDigit(c) == \E i \in 1..Len(DigitChars) : Chr(DigitChars, i) = c

DigitOf(c) == (CHOOSE i \in 1..Len(DigitChars) : Chr(DigitChars, i) = c) - 1

\* str.isdigit
isdigit(s) == Len(s) > 0 /\ \A i \in 1..Len(s) : IsDigit(Chr(s, i))

RECURSIVE DigitsValue(_)

DigitsValue(s) ==
  IF Len(s) = 0 THEN 0
  ELSE 10 * DigitsValue(SubSeq(s, 1, Len(s) - 1)) + DigitOf(Chr(s, Len(s)))

\* sub occurs in s at position i
OccursAt(s, sub, i) ==
  /\ i + Len(sub) - 1 <= Len(s)
  /\ SubSeq(s, i, i + Len(sub) - 1) = sub

\* "sub in s"
Occurs(s, sub) == \E i \in 1..Len(s) : OccursAt(s, sub, i)

\* s.startswith(prefix)
startswith(s, prefix) == OccursAt(s, prefix, 1)

\* s.find(sub) + 1, for sub occurring in s
Find(s, sub) ==
  CHOOSE i \in 1..Len(s) : OccursAt(s, sub, i) /\ \A j \in 1..(i - 1) : ~OccursAt(s, sub, j)

\* the length of the run of digits of s that starts at position i
DigitRun(s, i) ==
  CHOOSE n \in 0..(Len(s) - i + 1) :
    /\ \A k \in i..(i + n - 1) : IsDigit(Chr(s, k))
    /\ i + n > Len(s) \/ ~IsDigit(Chr(s, i + n))

Whitespace == {" ", "\t", "\n", "\r"}

\* str.strip
strip(s) ==
  LET keep == {i \in 1..Len(s) : Chr(s, i) \notin Whitespace} IN
  IF keep = {} THEN ""
  ELSE SubSeq(s, CHOOSE i \in keep : \A j \in keep : i <= j,
                 CHOOSE i \in keep : \A j \in keep : i >= j)

RECURSIVE split(_, _)

\* s.split(sep) for a non-empty separator: empty pieces are kept
split(s, sep) ==
  IF ~Occurs(s, sep) THEN <<s>>
  ELSE LET i == Find(s, sep) IN
       <<SubSeq(s, 1, i - 1)>> \o split(SubSeq(s, i + Len(sep), Len(s)), sep)

RECURSIVE replace(_, _, _)

\* s.replace(old, new) for a one-character old
replace(s, old, new) ==
  IF Len(s) = 0 THEN ""
  ELSE (IF Chr(s, 1) = old THEN new ELSE Chr(s, 1)) \o replace(SubSeq(s, 2, Len(s)), old, new)

\* s.split(): the pieces between runs of whitespace
words(s) ==
  LET W == CHOOSE w \in Whitespace : TRUE
      RECURSIVE blank(_)
      blank(r) == IF Len(r) = 0 THEN ""
                  ELSE (IF Chr(r, 1) \in Whitespace THEN W ELSE Chr(r, 1))
                       \o blank(SubSeq(r, 2, Len(r)))
  IN SelectSeq(split(blank(s), W), LAMBDA piece : piece # "")

UpperCase == "ABCDEFGHIJKLMNOPQRSTUVWXYZ"

LowerCase == "abcdefghijklmnopqrstuvwxyz"

RECURSIVE lower(_)

\* str.lower
lower(s) ==
  IF Len(s) = 0 THEN ""
  ELSE (IF Occurs(UpperCase, Chr(s, 1)) THEN Chr(LowerCase, Find(UpperCase, Chr(s, 1)))
        ELSE Chr(s, 1)) \o lower(SubSeq(s, 2, Len(s)))

\* int(s) succeeds: digits with an optional sign, surrounding whitespace allowed
IsInt(s) ==
  LET r == strip(s) IN
  \/ isdigit(r)
  \/ Len(r) > 1 /\ Chr(r, 1) \in {"+", "-"} /\ isdigit(SubSeq(r, 2, Len(r)))

\* int(s)
IntValue(s) ==
  LET r == strip(s) IN
  IF Chr(r, 1) = "-" THEN 0 - DigitsValue(SubSeq(r, 2, Len(r)))
  ELSE IF Chr(r, 1) = "+" THEN DigitsValue(SubSeq(r, 2, Len(r)))
  ELSE DigitsValue(r)

endswith(s, suffix) ==
  Len(s) >= Len(suffix) /\ SubSeq(s, Len(s) - Len(suffix) + 1, Len(s)) = suffix

\* s.rstrip(ch): every trailing ch removed
rstrip(s, ch) ==
  LET keep == {i \in 1..Len(s) : Chr(s, i) # ch} IN
  IF keep = {} THEN "" ELSE SubSeq(s, 1, CHOOSE i \in keep : \A j \in keep : i >= j)

\* int(s) if s.isdigit() else 0
digits_or_zero(s) == IF isdigit(s) THEN DigitsValue(s) ELSE 0

(***************************************************************************)
(* Job submission (slurm_commands.py): sbatch and submit_job               *)
(***************************************************************************)
SubmittedBatchJob == "Submitted batch job "

\* the positions at which 'Submitted batch job (\d+)' matches
SubmittedAt(stdout) ==
  {i \in 1..Len(stdout) :
     /\ OccursAt(stdout, SubmittedBatchJob, i)
     /\ DigitRun(stdout, i + Len(SubmittedBatchJob)) > 0}

NoOutput == ""

\* sbatch, lines 638-646: the job id, or the error raised and the output it quotes
sbatch(result) ==
  IF ~Succeeded(result)
  THEN [error |-> "SSHCommandError:sbatch failed", job_id |-> 0, output |-> result.stderr]
  ELSE IF SubmittedAt(result.stdout) # {}
  THEN LET i == CHOOSE i \in SubmittedAt(result.stdout) :
                   \A j \in SubmittedAt(result.stdout) : i <= j
           d == i + Len(SubmittedBatchJob)
       IN [error |-> "none",
           job_id |-> DigitsValue(SubSeq(result.stdout, d, d + DigitRun(result.stdout, d) - 1)),
           output |-> NoOutput]
  ELSE [error |-> "SSHCommandError:parse", job_id |-> 0, output |-> result.stdout]

\* lines 666-667; the n-th call draws the n-th name
ScriptPath(n) == "/tmp/.slurm_mcp_job_" \o Chr(DigitChars, n + 1) \o ".sh"

NoResult == [error |-> "unset", job_id |-> 0, output |-> NoOutput]

\* a caller of submit_job: its position, the local script_path, the path handed to
\* delete_file, the outcome of sbatch held while the finally block runs and what the
\* call gave its caller; files are the scripts present on the remote host
IdleSubmission ==
  [pc |-> "idle", calls |-> 0, script_path |-> NoOutput, deleting |-> NoOutput,
   pending |-> NoResult, result |-> NoResult, files |-> {}]

after_sbatch_on_success(S, answer) ==
  IF answer.error = "none"
  THEN [S EXCEPT !.pc = "delete", !.deleting = S.script_path, !.pending = answer]
  ELSE [S EXCEPT !.pc = "idle", !.result = answer]

\* lines 671-677: sbatch returned or raised; the finally block deletes the script
after_sbatch(S, answer) ==
  [S EXCEPT !.pc = "delete", !.deleting = S.script_path, !.pending = answer]

\* lines 673-679: the delete is over; the return value or the error of sbatch stands
submit_job_finish(S) == [S EXCEPT !.pc = "idle", !.result = S.pending]

SubmissionOnly ==
  UNCHANGED <<pvars, rvars, svars, tvars, srun_call, sinfo_p, sinfo_n, gres_call, show_job>>

\* lines 657-669
SubmitJob ==
  /\ submission.pc = "idle"
  /\ submission.calls < MaxCalls
  /\ submission' = [submission EXCEPT !.pc = "write", !.calls = @ + 1,
                                     !.script_path = ScriptPath(submission.calls + 1),
                                     !.deleting = NoOutput, !.pending = NoResult]
  /\ SubmissionOnly

\* write_remote_file returned: the script exists and sbatch is issued
WriteCompletes ==
  /\ submission.pc = "write"
  /\ submission' = [submission EXCEPT !.pc = "sbatch",
                                     !.files = @ \cup {submission.script_path}]
  /\ SubmissionOnly

\* write_remote_file raised (outside the try block); the file may have been created
WriteFails ==
  /\ submission.pc = "write"
  /\ \E created \in BOOLEAN :
       submission' = [submission EXCEPT
                        !.pc = "idle",
                        !.result = [error |-> "SSHCommandError:write", job_id |-> 0,
                                    output |-> NoOutput],
                        !.files = IF created THEN @ \cup {submission.script_path} ELSE @]
  /\ SubmissionOnly

SbatchResults ==
  {[returncode |-> rc, stdout |-> out, stderr |-> err] :
     rc \in ReturnCodes,
     out \in {"Submitted batch job 12\n", "Submitted batch job 7 on cluster c",
              "sbatch: note\nSubmitted batch job 345", "Submitted batch job",
              "Submitted batch job x1", "Submitted batch job 3\nSubmitted batch job 4",
              NoOutput},
     err \in {NoOutput, "sbatch: error: invalid partition"}}

SbatchReturns(result) ==
  /\ submission.pc = "sbatch"
  /\ submission' = after_sbatch(submission, sbatch(result))
  /\ SubmissionOnly

SbatchCompletes == \E result \in SbatchResults : SbatchReturns(result)

\* ssh.execute raised inside sbatch (timeout or transport failure)
SbatchRaises ==
  /\ submission.pc = "sbatch"
  /\ submission' = after_sbatch(submission, [error |-> "SSHCommandError:execute",
                                             job_id |-> 0, output |-> NoOutput])
  /\ SubmissionOnly

\* delete_file returned
DeleteCompletes ==
  /\ submission.pc = "delete"
  /\ submission' = submit_job_finish([submission EXCEPT !.files = @ \ {submission.deleting}])
  /\ SubmissionOnly

\* delete_file raised: lines 678-679 discard the error
DeleteFails ==
  /\ submission.pc = "delete"
  /\ submission' = submit_job_finish(submission)
  /\ SubmissionOnly

SubmitInit ==
  /\ PoolIdle
  /\ ResolveIdle
  /\ SessionIdle
  /\ ToolsIdle
  /\ submission = IdleSubmission
  /\ NoSrunCall
  /\ NoPartitionListing
  /\ NoNodeListing
  /\ NoGresCall
  /\ NoShowJob

SubmitNext ==
  \/ SubmitJob
  \/ WriteCompletes
  \/ WriteFails
  \/ SbatchCompletes
  \/ SbatchRaises
  \/ DeleteCompletes
  \/ DeleteFails

SpecSubmit == SubmitInit /\ [][SubmitNext]_vars

(***************************************************************************)
(* Timeout of srun commands (slurm_commands.py): srun_command and          *)
(* srun_in_allocation applied to a caller's timeout under a configured     *)
(* command_timeout                                                         *)
(***************************************************************************)
MinInteractiveTimeout == 300

Max(a, b) == IF a >= b THEN a ELSE b

\* lines 918 and 1025: timeout or max(300, self.settings.command_timeout)
\* (a timeout of 0 stands for None: both are false in "timeout or ...")
exec_timeout(timeout, command_timeout) ==
  IF timeout # 0 THEN timeout ELSE Max(MinInteractiveTimeout, command_timeout)

escape_nothing(command) == command

\* _escape_for_single_quotes, line 43: command.replace("'", "'\\''")
escape_for_single_quotes(command) == replace(command, "'", "'\\''")

\* lines 907-915 and 1015-1023: the command line with the wrapped command
\* (an empty working_directory stands for None: both are false)
wrapped(cmd, command, working_directory) ==
  LET full_command == IF working_directory # ""
                      THEN "cd " \o working_directory \o " && " \o command
                      ELSE command
  IN cmd \o " bash -c '" \o escape_for_single_quotes(full_command) \o "'"

\* lines 882-896 under the default settings (no account, partition interactive,
\* one node, 4:00:00, eight GPUs per node) and without a container image
srun_options == "srun -p interactive -N 1 -t 4:00:00 --gpus-per-node=8"

\* line 1005 for the allocations of the calls below, without a container image
srun_jobid(job_id) == "srun --jobid=" \o job_id

JobIdTexts == {"7", "42"}

Commands ==
  {"echo hello", "python -c \"print(123)\"", "python -c 'print(123)'",
   "echo 'one' && echo 'two'", "'", "''", "it's", "a'\\''b", "\\'", "'\\", "x '\" y"}

WorkingDirectories == {"", "/data"}

CommandTimeouts == {30, CommandTimeout, 300, 600, 900}

CallerTimeouts == {0, 1, 5, 30, 60, 120, 299, 300, 301, 600, 3600}

\* the settings of a SlurmCommands object, the command and working directory of
\* a request, and its last srun call: the method, the caller's timeout, the
\* command line and the timeout handed to ssh.execute
SrunInit ==
  /\ PoolIdle
  /\ ResolveIdle
  /\ SessionIdle
  /\ ToolsIdle
  /\ NoSubmission
  /\ \E command_timeout \in CommandTimeouts, command \in Commands,
        working_directory \in WorkingDirectories :
       srun_call = [command_timeout |-> command_timeout, op |-> "none", timeout |-> 0,
                    executed |-> 0, command |-> command,
                    working_directory |-> working_directory, cmd |-> ""]
  /\ NoPartitionListing
  /\ NoNodeListing
  /\ NoGresCall
  /\ NoShowJob

SrunOnly ==
  UNCHANGED <<pvars, rvars, svars, tvars, submission, sinfo_p, sinfo_n, gres_call, show_job>>

\* lines 881-920, for the command and working directory of the request
srun_command(timeout) ==
  /\ srun_call' = [srun_call EXCEPT
                     !.op = "srun_command", !.timeout = timeout,
                     !.cmd = wrapped(srun_options, srun_call.command,
                                     srun_call.working_directory),
                     !.executed = exec_timeout(timeout, srun_call.command_timeout)]
  /\ SrunOnly

\* lines 1005-1027, for the command and working directory of the request
srun_in_allocation(job_id, timeout) ==
  /\ srun_call' = [srun_call EXCEPT
                     !.op = "srun_in_allocation", !.timeout = timeout,
                     !.cmd = wrapped(srun_jobid(job_id), srun_call.command,
                                     srun_call.working_directory),
                     !.executed = exec_timeout(timeout, srun_call.command_timeout)]
  /\ SrunOnly

SrunNext ==
  \/ \E timeout \in CallerTimeouts : srun_command(timeout)
  \/ \E job_id \in JobIdTexts, timeout \in CallerTimeouts :
       srun_in_allocation(job_id, timeout)

SpecSrun == SrunInit /\ [][SrunNext]_vars

(***************************************************************************)
(* Generic-resource descriptors (slurm_commands.py): _parse_gres applied   *)
(* to descriptors under the feature strings of a node                      *)
(***************************************************************************)
\* line 105
known_gpus == <<"h100", "a100", "v100", "a10", "l40", "t4", "a6000", "rtx">>

\* "" stands for None: a feature tag is never empty
NoGpuType == ""

gpu_type_from_features_none(features) == NoGpuType

\* lines 102-112: the first tag of the features that contains a known GPU name
gpu_type_from_features(features) ==
  LET feats == words(replace(lower(features), ",", " "))
      hits == {i \in 1..Len(feats) :
                 \E k \in 1..Len(known_gpus) : Occurs(feats[i], known_gpus[k])}
  IN IF hits = {} THEN NoGpuType
     ELSE feats[CHOOSE i \in hits : \A j \in hits : i <= j]

GPUInfo(gpu_type, count) == [gpu_type |-> gpu_type, count |-> count]

\* lines 115-138: the records (none or one) of one comma-separated part
gres_part(part_, from_features) ==
  LET part == strip(part_) IN
  IF ~startswith(part, "gpu") THEN << >>
  ELSE LET base_part == split(part, "(")[1]
           parts == split(base_part, ":")
       IN IF Len(parts) = 2
          THEN IF IsInt(parts[2])
               THEN <<GPUInfo(IF from_features # NoGpuType THEN from_features ELSE "gpu",
                              IntValue(parts[2]))>>
               ELSE << >>
          ELSE IF Len(parts) >= 3
          THEN IF IsInt(parts[3]) THEN <<GPUInfo(parts[2], IntValue(parts[3]))>> ELSE << >>
          ELSE << >>

RECURSIVE gres_parts(_, _)

\* line 114: the loop over the parts
gres_parts(list, from_features) ==
  IF list = << >> THEN << >>
  ELSE gres_part(Head(list), from_features) \o gres_parts(Tail(list), from_features)

\* _parse_gres, lines 97-140
parse_gres(gres_str, features) ==
  IF gres_str \in {"", "(null)", "N/A"} THEN << >>
  ELSE gres_parts(split(gres_str, ","), gpu_type_from_features(features))

GresInputs ==
  {"", "(null)", "N/A", "gpu:a100:4", "gpu:8", "gpu:8(S:0-1)", "gpu:a100:2,gpu:v100:4",
   "gpu:h100:8(S:0-1)", "gpu:x", "gpu:a100:many", "mps:100", "mps:100,gpu:2", "gpu",
   "gpu:a100", " gpu:4", "gpu:2,tmpdisk:10,gpu:v100:1", "gpu:a100:4:extra",
   "gpu:4(S:0,1)", "gpu:-1", "gpu:t4:x,gpu:3"}

FeatureInputs ==
  {"", "H100", "location=ap-tokyo-1,GPU,H100", "cpu,avx512", "A100_80g,nvlink",
   "ib v100 a100"}

GresInit ==
  /\ PoolIdle
  /\ ResolveIdle
  /\ SessionIdle
  /\ ToolsIdle
  /\ NoSubmission
  /\ NoSrunCall
  /\ NoPartitionListing
  /\ NoNodeListing
  /\ \E features \in FeatureInputs :
       gres_call = [features |-> features, gres_str |-> "", parsed |-> FALSE,
                    gpus |-> << >>]
  /\ NoShowJob

ParseGres(gres_str) ==
  /\ gres_call' = [gres_call EXCEPT !.gres_str = gres_str, !.parsed = TRUE,
                                    !.gpus = parse_gres(gres_str, gres_call.features)]
  /\ UNCHANGED <<pvars, rvars, svars, tvars, submission, srun_call, sinfo_p, sinfo_n,
                 show_job>>

GresNext == \E gres_str \in GresInputs : ParseGres(gres_str)

SpecGres == GresInit /\ [][GresNext]_vars

(***************************************************************************)
(* Partition listing (slurm_commands.py): get_partitions applied to the    *)
(* lines sinfo printed                                                     *)
(***************************************************************************)
MaxRows == 3

\* stands for None where a text is optional
NoText == "<None>"

NoMaxTime == NoText

\* _parse_slurm_time, lines 80-84: both branches of the second return
parse_slurm_time(time_str) == IF time_str = "" THEN NoMaxTime ELSE time_str

RECURSIVE gpu_count(_)

\* sum(g.count for g in gpus)
gpu_count(gpus) == IF gpus = << >> THEN 0 ELSE Head(gpus).count + gpu_count(Tail(gpus))

\* element of an allocated/idle/other/total field, 0 unless the field has four parts
aiot(field, k) ==
  LET group == split(field, "/") IN
  IF Len(group) = 4 THEN digits_or_zero(group[k]) ELSE 0

\* lines 213-244: what one line says (gpu_types is kept as a set: the code
\* builds it with list(set(...)))
partition_line(parts) ==
  LET gpus == parse_gres(parts[6], IF Len(parts) > 7 THEN parts[8] ELSE "") IN
  [name |-> rstrip(parts[1], "*"),
   state |-> parts[2],
   total_nodes |-> digits_or_zero(parts[4]),
   available_nodes |-> aiot(parts[7], 2),
   total_cpus |-> aiot(parts[5], 4),
   available_cpus |-> aiot(parts[5], 2),
   max_time |-> parse_slurm_time(parts[3]),
   default |-> endswith(parts[1], "*"),
   has_gpus |-> Len(gpus) > 0,
   gpu_types |-> {gpus[i].gpu_type : i \in {j \in 1..Len(gpus) : gpus[j].gpu_type # "gpu"}},
   total_gpus |-> gpu_count(gpus),
   available_gpus |-> 0]

merge_partition_latest(existing, row) ==
  [existing EXCEPT !.total_nodes = row.total_nodes,
                   !.available_nodes = row.available_nodes,
                   !.total_cpus = row.total_cpus,
                   !.available_cpus = row.available_cpus,
                   !.total_gpus = row.total_gpus,
                   !.gpu_types = row.gpu_types,
                   !.has_gpus = row.has_gpus]

\* lines 247-255
merge_partition(existing, row) ==
  [existing EXCEPT !.total_nodes = @ + row.total_nodes,
                   !.available_nodes = @ + row.available_nodes,
                   !.total_cpus = @ + row.total_cpus,
                   !.available_cpus = @ + row.available_cpus,
                   !.total_gpus = @ + row.total_gpus,
                   !.gpu_types = IF row.gpu_types # {} THEN @ \union row.gpu_types ELSE @,
                   !.has_gpus = @ \/ row.has_gpus]

\* lines 206-270: one turn of the loop; partitions is the dict in insertion order
partition_row(line, partitions) ==
  IF strip(line) = "" THEN partitions
  ELSE LET parts == split(line, "|") IN
       IF Len(parts) < 7 THEN partitions
       ELSE LET row == partition_line(parts)
                at == {i \in 1..Len(partitions) : partitions[i].name = row.name}
            IN IF at # {}
               THEN LET i == CHOOSE i \in at : TRUE IN
                    [partitions EXCEPT ![i] = merge_partition(@, row)]
               ELSE Append(partitions, row)

RECURSIVE partition_rows(_, _)

partition_rows(lines, partitions) ==
  IF lines = << >> THEN partitions
  ELSE partition_rows(Tail(lines), partition_row(Head(lines), partitions))

\* get_partitions, lines 188-274
get_partitions(result) ==
  IF ~result.success THEN << >>
  ELSE partition_rows(split(strip(result.stdout), "\n"), << >>)

PartitionLines ==
  {"batch*|up|1:00|2|4/6/0/10|(null)|1/1/0/2|cpu",
   "batch|up|1:00|3|2/8/0/10|gpu:a100:2|0/3/0/3|A100",
   "gpu|up|UNLIMITED|1|0/8/0/8|gpu:2|0/1/0/1|H100",
   "gpu|down|2:00|x|n/a|gpu:v100:1,gpu:4|1/0/0/1",
   "short|up|1:00|1",
   "",
   "debug|up||1|1/1/0/2|gpu:t4:1|1/0/0/1|"}

PartitionsInit ==
  /\ PoolIdle
  /\ ResolveIdle
  /\ SessionIdle
  /\ ToolsIdle
  /\ NoSubmission
  /\ NoSrunCall
  /\ sinfo_p = [stdout |-> "", rows |-> 0, returned |-> FALSE, success |-> TRUE,
                partitions |-> << >>]
  /\ NoNodeListing
  /\ NoGresCall
  /\ NoShowJob

PartitionsOnly ==
  UNCHANGED <<pvars, rvars, svars, tvars, submission, srun_call, sinfo_n, gres_call,
              show_job>>

\* sinfo prints one more line
SinfoPartitionLine(line) ==
  /\ ~sinfo_p.returned
  /\ sinfo_p.rows < MaxRows
  /\ sinfo_p' = [sinfo_p EXCEPT !.stdout = @ \o line \o "\n", !.rows = @ + 1]
  /\ PartitionsOnly

\* get_partitions on the result of the command
GetPartitions(success) ==
  /\ ~sinfo_p.returned
  /\ sinfo_p' = [sinfo_p EXCEPT
       !.returned = TRUE,
       !.success = success,
       !.partitions = get_partitions([success |-> success, stdout |-> sinfo_p.stdout])]
  /\ PartitionsOnly

PartitionsNext ==
  \/ \E line \in PartitionLines : SinfoPartitionLine(line)
  \/ \E success \in BOOLEAN : GetPartitions(success)

SpecPartitions == PartitionsInit /\ [][PartitionsNext]_vars

(***************************************************************************)
(* Node listing (slurm_commands.py): get_nodes applied to the lines        *)
(* sinfo -N printed                                                        *)
(***************************************************************************)
\* the pieces of a comma-separated field that are not empty
listed(field) == SelectSeq(split(field, ","), LAMBDA piece : piece # "")

InList(x, list) == \E i \in 1..Len(list) : list[i] = x

\* lines 321-353: the entry the first line of a node makes (an empty gpus
\* stands for None: the field never holds an empty list)
NodeInfo(parts) ==
  LET cpus_total == digits_or_zero(parts[3])
      cpus_allocated == aiot(parts[4], 1)
      memory_total == digits_or_zero(parts[5])
      memory_free == digits_or_zero(parts[6])
  IN [node_name |-> parts[1],
      state |-> parts[2],
      cpus_total |-> cpus_total,
      cpus_allocated |-> cpus_allocated,
      cpus_available |-> cpus_total - cpus_allocated,
      memory_total_mb |-> memory_total,
      memory_allocated_mb |-> memory_total - memory_free,
      memory_available_mb |-> memory_free,
      partitions |-> listed(parts[7]),
      gpus |-> parse_gres(parts[8], parts[9]),
      features |-> listed(parts[9])]

node_again_appending(node, parts) == [node EXCEPT !.partitions = Append(@, parts[7])]

\* lines 315-319: a line for a node that is already there
node_again(node, parts) ==
  IF parts[7] # "" /\ ~InList(parts[7], node.partitions)
  THEN [node EXCEPT !.partitions = Append(@, parts[7])]
  ELSE node

\* lines 305-353: one turn of the loop; nodes is the dict in insertion order
node_row(line, nodes) ==
  IF strip(line) = "" THEN nodes
  ELSE LET parts == split(line, "|") IN
       IF Len(parts) < 9 THEN nodes
       ELSE LET at == {i \in 1..Len(nodes) : nodes[i].node_name = parts[1]} IN
            IF at # {}
            THEN LET i == CHOOSE i \in at : TRUE IN
                 [nodes EXCEPT ![i] = node_again(@, parts)]
            ELSE Append(nodes, NodeInfo(parts))

RECURSIVE node_rows(_, _)

node_rows(lines, nodes) ==
  IF lines = << >> THEN nodes
  ELSE node_rows(Tail(lines), node_row(Head(lines), nodes))

\* get_nodes, lines 276-357
get_nodes(result) ==
  IF ~result.success THEN << >>
  ELSE node_rows(split(strip(result.stdout), "\n"), << >>)

NodeLines ==
  {"n1|idle|8|2/6/0/8|64|32|batch|gpu:a100:2|A100,ib",
   "n1|mixed|16|4/12/0/16|128|1|gpu|gpu:4|H100",
   "n2|alloc|4|4/0/0/4|x|10|batch,debug|(null)|",
   "n2|alloc|4|4/0/0/4|x|10||(null)|",
   "n2|alloc|4|4/0/0/4|x|10|debug|(null)|",
   "n3|down|2|0/2|10|5|debug|N/A|cpu",
   "n3|idle|8",
   ""}

NodesInit ==
  /\ PoolIdle
  /\ ResolveIdle
  /\ SessionIdle
  /\ ToolsIdle
  /\ NoSubmission
  /\ NoSrunCall
  /\ NoPartitionListing
  /\ sinfo_n = [stdout |-> "", rows |-> 0, returned |-> FALSE, success |-> TRUE,
                nodes |-> << >>]
  /\ NoGresCall
  /\ NoShowJob

NodesOnly ==
  UNCHANGED <<pvars, rvars, svars, tvars, submission, srun_call, sinfo_p, gres_call,
              show_job>>

\* sinfo -N prints one more line
SinfoNodeLine(line) ==
  /\ ~sinfo_n.returned
  /\ sinfo_n.rows < MaxRows
  /\ sinfo_n' = [sinfo_n EXCEPT !.stdout = @ \o line \o "\n", !.rows = @ + 1]
  /\ NodesOnly

\* get_nodes on the result of the command
GetNodes(success) ==
  /\ ~sinfo_n.returned
  /\ sinfo_n' = [sinfo_n EXCEPT
       !.returned = TRUE,
       !.success = success,
       !.nodes = get_nodes([success |-> success, stdout |-> sinfo_n.stdout])]
  /\ NodesOnly

NodesNext ==
  \/ \E line \in NodeLines : SinfoNodeLine(line)
  \/ \E success \in BOOLEAN : GetNodes(success)

SpecNodes == NodesInit /\ [][NodesNext]_vars

(***************************************************************************)
(* Job details (slurm_commands.py): get_job_details applied to the text    *)
(* scontrol show job printed                                               *)
(***************************************************************************)
MaxPieces == 3

RECURSIVE parts_of(_)

\* lines 562-563: the parts of every line, in order
parts_of(lines) ==
  IF lines = << >> THEN << >> ELSE words(Head(lines)) \o parts_of(Tail(lines))

put_first(info, key, value) ==
  [k \in DOMAIN info \union {key} |-> IF k \in DOMAIN info THEN info[k] ELSE value]

\* info[key] = value
put(info, key, value) ==
  [k \in DOMAIN info \union {key} |-> IF k = key THEN value ELSE info[k]]

RECURSIVE info_of(_, _)

\* lines 564-566
info_of(parts, info) ==
  IF parts = << >> THEN info
  ELSE LET part == Head(parts) IN
       info_of(Tail(parts),
               IF Occurs(part, "=")
               THEN put(info, SubSeq(part, 1, Find(part, "=") - 1),
                        SubSeq(part, Find(part, "=") + 1, Len(part)))
               ELSE info)

\* info.get(key, default)
get(info, key, default) == IF key \in DOMAIN info THEN info[key] ELSE default

\* info.get(key) is neither None nor empty
given(info, key) == key \in DOMAIN info /\ info[key] # ""

NoTimestamp == << >>

DaysIn(year, month) ==
  IF month \in {4, 6, 9, 11} THEN 30
  ELSE IF month # 2 THEN 31
  ELSE IF year % 4 = 0 /\ (year % 100 # 0 \/ year % 400 = 0) THEN 29 ELSE 28

\* datetime.strptime(text, '%Y-%m-%dT%H:%M:%S'), NoTimestamp for a ValueError:
\* a four-digit year, the other fields of one or two digits, each in its range
strptime(text) ==
  LET halves == split(text, "T")
      date == split(halves[1], "-")
      time == split(halves[2], ":")
      short(field) == isdigit(field) /\ Len(field) <= 2
      value == <<DigitsValue(date[1]), DigitsValue(date[2]), DigitsValue(date[3]),
                 DigitsValue(time[1]), DigitsValue(time[2]), DigitsValue(time[3])>>
  IN IF /\ Len(halves) = 2
        /\ Len(date) = 3
        /\ Len(time) = 3
        /\ isdigit(date[1]) /\ Len(date[1]) = 4
        /\ \A i \in 2..3 : short(date[i])
        /\ \A i \in 1..3 : short(time[i])
        /\ value[1] >= 1
        /\ value[2] \in 1..12
        /\ value[3] \in 1..DaysIn(value[1], value[2])
        /\ value[4] \in 0..23
        /\ value[5] \in 0..59
        /\ value[6] \in 0..59
     THEN value
     ELSE NoTimestamp

\* lines 576-592
timestamp(info, key) ==
  IF given(info, key) /\ info[key] # "Unknown" THEN strptime(info[key]) ELSE NoTimestamp

\* lines 600-621: the JobInfo built from info (exit_code is << >> for None)
JobInfo(info) ==
  [job_id |-> IntValue(info["JobId"]),
   job_name |-> get(info, "JobName", "unknown"),
   user |-> split(get(info, "UserId", ""), "(")[1],
   state |-> get(info, "JobState", "UNKNOWN"),
   partition |-> get(info, "Partition", ""),
   nodes |-> get(info, "NodeList", NoText),
   num_nodes |-> IntValue(get(info, "NumNodes", "1")),
   num_cpus |-> IntValue(get(info, "NumCPUs", "1")),
   num_gpus |-> IF given(info, "Gres") THEN gpu_count(parse_gres(info["Gres"], "")) ELSE 0,
   memory |-> get(info, "MinMemoryNode", NoText),
   time_limit |-> get(info, "TimeLimit", NoText),
   time_used |-> get(info, "RunTime", NoText),
   time_remaining |-> NoText,
   submit_time |-> timestamp(info, "SubmitTime"),
   start_time |-> timestamp(info, "StartTime"),
   end_time |-> timestamp(info, "EndTime"),
   work_dir |-> get(info, "WorkDir", NoText),
   stdout_path |-> get(info, "StdOut", NoText),
   stderr_path |-> get(info, "StdErr", NoText),
   container_image |-> NoText,
   exit_code |-> IF given(info, "ExitCode")
                 THEN <<IntValue(split(info["ExitCode"], ":")[1])>> ELSE << >>,
   reason |-> get(info, "Reason", NoText)]

\* some int() of lines 601-619 raises ValueError
int_raises(info) ==
  \/ ~IsInt(info["JobId"])
  \/ ~IsInt(get(info, "NumNodes", "1"))
  \/ ~IsInt(get(info, "NumCPUs", "1"))
  \/ given(info, "ExitCode") /\ ~IsInt(split(info["ExitCode"], ":")[1])

NoInfo == [k \in {} |-> ""]

\* get_job_details on the text of the command, lines 545-621: None, a
\* ValueError, or the JobInfo
job_details(result) ==
  IF ~result.success \/ Occurs(result.stderr, "Invalid job id")
  THEN [kind |-> "None"]
  ELSE LET info == info_of(parts_of(split(result.stdout, "\n")), NoInfo) IN
       IF ~given(info, "JobId") THEN [kind |-> "None"]
       ELSE IF int_raises(info) THEN [kind |-> "ValueError"]
       ELSE [kind |-> "JobInfo", job |-> JobInfo(info)]

DumpPieces ==
  {"JobId=42 ", "JobId=7\n", "JobId= ", "JobName=a=b ", "   UserId=al(1000)\n",
   "JobState=RUNNING ", "NumNodes=2 ", "NumNodes=2-4 ", "ExitCode=1:0\n",
   "Gres=gpu:a100:2 ", "SubmitTime=2024-02-29T10:00:00 ", "SubmitTime=Unknown\n",
   "Priority\n"}

ScontrolErrors == {"", "slurm_load_jobs error: Invalid job id specified"}

ShowJobInit ==
  /\ PoolIdle
  /\ ResolveIdle
  /\ SessionIdle
  /\ ToolsIdle
  /\ NoSubmission
  /\ NoSrunCall
  /\ NoPartitionListing
  /\ NoNodeListing
  /\ NoGresCall
  /\ show_job = [stdout |-> "", pieces |-> 0, returned |-> FALSE, success |-> TRUE,
                 stderr |-> "", out |-> [kind |-> "None"]]

ShowJobOnly ==
  UNCHANGED <<pvars, rvars, svars, tvars, submission, srun_call, sinfo_p, sinfo_n,
              gres_call>>

\* scontrol prints one more piece of its dump
ScontrolPrints(piece) ==
  /\ ~show_job.returned
  /\ show_job.pieces < MaxPieces
  /\ show_job' = [show_job EXCEPT !.stdout = @ \o piece, !.pieces = @ + 1]
  /\ ShowJobOnly

\* get_job_details on the result of the command
GetJobDetails(success, stderr) ==
  /\ ~show_job.returned
  /\ show_job' = [show_job EXCEPT
       !.returned = TRUE,
       !.success = success,
       !.stderr = stderr,
       !.out = job_details([success |-> success, stdout |-> show_job.stdout,
                            stderr |-> stderr])]
  /\ ShowJobOnly

ShowJobNext ==
  \/ \E piece \in DumpPieces : ScontrolPrints(piece)
  \/ \E success \in BOOLEAN, stderr \in ScontrolErrors : GetJobDetails(success, stderr)

SpecShowJob == ShowJobInit /\ [][ShowJobNext]_vars

(***************************************************************************)
(* Vocabulary of the properties                                            *)
(***************************************************************************)
GCI == "get_cluster_instances"

\* the cluster a call with this cluster argument addresses
Target(cluster_name) == IF cluster_name = NoCluster THEN default_cluster ELSE cluster_name

Conns(c) == clusters[c].node_connections

\* task t is resumed at a suspension point in this step
Resumes(t) ==
  \/ MgrLockGranted(t) \/ SSHLockGranted(t)
  \/ ConnectSucceeds(t) \/ ConnectFails(t) \/ CloseCompletes(t)
  \/ CommandCompletes(t) \/ CommandTimesOut(t) \/ CommandBreaks(t)

\* in this step a get_cluster_instances(c, node) call of task t returns its instances
GciReturns(t, c, node) ==
  \/ /\ \E cluster_name \in ClusterInputs :
          Target(cluster_name) = c /\ CallGetClusterInstances(t, cluster_name, node)
     /\ task'[t].pc = "idle"
     /\ outcome' = [op |-> GCI, value |-> "ok"]
  \/ /\ task[t].pc # "idle" /\ task[t].op = GCI
     /\ task[t].cluster = c /\ task[t].node = node
     /\ task'[t].pc = "idle"
     /\ outcome' = [op |-> GCI, value |-> "ok"]

\* a task enters the remote command of an execute call in this step
Issues(t) == task[t].pc # "running" /\ task'[t].pc = "running"

(***************************************************************************)
(* C1: current-node preservation                                           *)
(***************************************************************************)
\* an unqualified call returns on a cluster whose current node was set when the
\* call was made and has not changed since
UnqualifiedFollowUp(t, c) ==
  /\ GciReturns(t, c, None)
  /\ clusters[c].current_node # None
  /\ task[t].pc # "idle" => task[t].seen = clusters[c].current_node

\* C1: once a node of cluster c has been selected, a later get_cluster_instances(c)
\* with no node argument leaves c's current_node at that node (it does not fall
\* back to the host of the default role).
C1_CurrentNodePreserved ==
  [][\A t \in Tasks, c \in ClusterNames :
       UnqualifiedFollowUp(t, c) => clusters'[c].current_node = clusters[c].current_node]_vars

(***************************************************************************)
(* C2: no duplicate connects                                               *)
(***************************************************************************)
Connecting(x) ==
  {t \in Tasks : task[t].ctx = "gci" /\ task[t].client = x
                 /\ task[t].pc \in {"ssh_wait", "ssh_connecting"}}

\* C2 as stated: over a group of overlapping get_cluster_instances calls for one
\* (cluster, hostname), the transport's connect() is invoked at most once.
C2_ConnectAtMostOnce == \A x \in DOMAIN ghost : ghost[x].attempts <= 1

\* C2 amended: over a group of overlapping get_cluster_instances calls for one
\* (cluster, hostname), at most one connect attempt is in flight at any time, at
\* most one attempt has not failed (connect() is invoked again only after an
\* earlier attempt raised), and no attempt is in flight while the NodeConnection
\* is flagged connected.
C2_NoDuplicateConnects ==
  \A x \in DOMAIN ghost :
    /\ Cardinality(Connecting(x)) <= 1
    /\ ghost[x].attempts <= ghost[x].fails + 1
    /\ Cardinality(Connecting(x)) + ghost[x].fails <= ghost[x].attempts
    /\ Conns(ssh[x].cluster)[ssh[x].hostname].connected => Connecting(x) = {}

\* a caller that waited on the lock found the node connected by the one attempt
C2_Witness ==
  \E x \in DOMAIN ghost :
    ghost[x].skips >= 1 /\ ghost[x].attempts = 1 /\ ghost[x].fails = 0

(***************************************************************************)
(* C3: one NodeConnection per hostname, never replaced                     *)
(***************************************************************************)
RECURSIVE Entries(_)
Entries(i) ==
  IF i = 0 THEN 0 ELSE Cardinality(DOMAIN Conns(ClusterOrder[i])) + Entries(i - 1)

C3_State ==
  /\ \A c \in ClusterNames : \A h \in DOMAIN Conns(c) :
       /\ Conns(c)[h].hostname = h
       /\ Conns(c)[h].ssh_client \in DOMAIN ssh
       /\ ssh[Conns(c)[h].ssh_client].cluster = c
       /\ ssh[Conns(c)[h].ssh_client].hostname = h
  /\ Len(ssh) = Entries(Len(ClusterOrder))
  /\ \A t \in Tasks : task[t].client # 0 =>
       /\ task[t].hostname \in DOMAIN Conns(task[t].cluster)
       /\ Conns(task[t].cluster)[task[t].hostname].ssh_client = task[t].client

C3_Step ==
  /\ \A c \in ClusterNames : \A h \in DOMAIN Conns(c) :
       /\ h \in DOMAIN clusters'[c].node_connections
       /\ clusters'[c].node_connections[h].ssh_client = Conns(c)[h].ssh_client
  /\ \A t \in Tasks, cluster_name \in ClusterInputs, node \in NodeInputs :
       LET c == Target(cluster_name) IN
       (/\ CallGetClusterInstances(t, cluster_name, node)
        /\ c \in ClusterNames
        /\ ResolveHostname(clusters[c], Config(c), node) # Unresolved)
       => ResolveHostname(clusters[c], Config(c), node) \in DOMAIN clusters'[c].node_connections

\* C3: every hostname resolved in a cluster has exactly one NodeConnection, with
\* its own transport, and an entry and its transport are never replaced,
\* re-created or removed.
C3_OneConnectionPerHost == []C3_State /\ [][C3_Step]_vars

\* an entry that was connected and then disconnected is still in the map
C3_Witness ==
  \E c \in ClusterNames : \E h \in DOMAIN Conns(c) :
    ~Conns(c)[h].connected /\ ssh[Conns(c)[h].ssh_client].serial >= 1

(***************************************************************************)
(* C4: node resolution precedence                                          *)
(***************************************************************************)
\* s has the form r:i for a role r that has a hostname at position i
IndexedForm(nodes, s) ==
  {<<r, i>> \in NodeTypes \X (0..9) : s = r \o <<":", DigitChar(i)>> /\ i < Len(nodes[r])}

Precedence(nodes, s) ==
  IF s \in NodeTypes /\ Len(nodes[s]) >= 1 THEN nodes[s][1]
  ELSE IF IndexedForm(nodes, s) # {}
       THEN LET ri == CHOOSE ri \in IndexedForm(nodes, s) : TRUE IN nodes[ri[1]][ri[2] + 1]
  ELSE IF \E r \in NodeTypes : \E i \in 1..Len(nodes[r]) : nodes[r][i] = s THEN s
  ELSE IF \E i \in 1..Len(s) : s[i] = "." THEN s
  ELSE Unresolved

\* C4: get_ssh_host(s) is the first hostname of role s, else the hostname at
\* position i of role r for s = r:i, else s if it is a configured hostname, else s
\* if it contains a dot; with login=[h1,h2], data=[h3]: login:1 gives h2, data h3.
C4_ResolutionPrecedence ==
  (r_host # None /\ r_node # None) =>
    /\ r_host = Precedence(r_nodes, r_node)
    /\ (r_nodes = ClusterNodes(<<H1, H2>>, <<H3>>, << >>) /\ r_node = Login1) => r_host = H2
    /\ (r_nodes = ClusterNodes(<<H1, H2>>, <<H3>>, << >>) /\ r_node = Data) => r_host = H3

C4_Witness ==
  /\ r_nodes = ClusterNodes(<<H1, H2>>, <<H3>>, << >>)
  /\ r_node = Login1
  /\ r_host = H2

(***************************************************************************)
(* C5: unresolvable requests raise and change nothing                      *)
(***************************************************************************)
Unresolvable(nodes, s) ==
  /\ s # None
  /\ \A r \in NodeTypes : \A i \in 1..Len(nodes[r]) : nodes[r][i] # s
  /\ \A i \in 1..Len(s) : s[i] # "."
  /\ \/ s \in NodeTypes /\ nodes[s] = << >>
     \/ s \notin NodeTypes /\ \A i \in 1..Len(s) : s[i] # ":"
     \/ \E r \in NodeTypes, i \in 0..9 : s = r \o <<":", DigitChar(i)>> /\ i >= Len(nodes[r])

BadRequest(cluster_name, node) ==
  \/ Target(cluster_name) \notin ClusterNames
  \/ Unresolvable(Config(Target(cluster_name)).nodes, node)

\* C5: get_cluster_instances with an unresolvable node specifier or an unconfigured
\* cluster raises a configuration error, attempts no connect and leaves every
\* cluster's node_connections, connected flags and current_node unchanged.
C5_BadRequestRaises ==
  [][\A t \in Tasks, cluster_name \in ClusterInputs, node \in NodeInputs :
       (CallGetClusterInstances(t, cluster_name, node) /\ BadRequest(cluster_name, node))
       => /\ outcome' = [op |-> GCI, value |-> "ValueError"]
          /\ UNCHANGED <<clusters, ssh, ghost, mgr_lock, default_cluster>>
          /\ \A u \in Tasks : [task'[u] EXCEPT !.alone = TRUE] = [task[u] EXCEPT !.alone = TRUE]]_vars

\* a request was refused while a cluster had a connected current node
C5_Witness ==
  /\ outcome = [op |-> GCI, value |-> "ValueError"]
  /\ \E c \in ClusterNames : clusters[c].current_node # None

(***************************************************************************)
(* C6: an explicit node request sets the current node                      *)
(***************************************************************************)
\* C6: when get_cluster_instances(c, node=Y) returns, c's current_node is the
\* hostname Y resolves to and that hostname's NodeConnection is flagged connected.
C6_ExplicitNodeBecomesCurrent ==
  [][\A t \in Tasks, c \in ClusterNames, node \in NodeInputs \ {None} :
       GciReturns(t, c, node) =>
         LET h == get_ssh_host(Config(c).nodes, Config(c).default_node_type, node) IN
         /\ clusters'[c].current_node = h
         /\ h \in DOMAIN clusters'[c].node_connections
         /\ clusters'[c].node_connections[h].connected]_vars

\* an explicit request has just switched cluster A away from a node that is
\* still connected
C6_Witness ==
  /\ outcome = [op |-> GCI, value |-> "ok"]
  /\ \E h \in DOMAIN Conns("A") :
       h # clusters["A"].current_node /\ Conns("A")[h].connected
  /\ clusters["A"].current_node = A3

(***************************************************************************)
(* C7: cross-cluster isolation                                             *)
(***************************************************************************)
\* this step belongs to an operation of task t applied to cluster a
ActsOn(t, a) ==
  \/ \E cluster_name \in ClusterInputs, node \in NodeInputs :
       Target(cluster_name) = a /\ CallGetClusterInstances(t, cluster_name, node)
  \/ \E hostname \in HostInputs : CallDisconnectNode(t, a, hostname)
  \/ CallDisconnectCluster(t, a)
  \/ CallSetDefaultCluster(t, a)
  \/ /\ task[t].op \in {GCI, "disconnect_node", "disconnect_cluster"}
     /\ task[t].cluster = a
     /\ Resumes(t)

\* C7: get_cluster_instances, connect/disconnect and set_default_cluster applied
\* to cluster A leave the current_node, node_connections and connected flags of
\* every other cluster unchanged.
C7_CrossClusterIsolation ==
  [][\A t \in Tasks, a \in ClusterInputs \ {NoCluster} :
       ActsOn(t, a) => \A b \in ClusterNames \ {a} : clusters'[b] = clusters[b]]_vars

\* both clusters have a current node and the default cluster has been switched
C7_Witness ==
  /\ clusters["A"].current_node # None
  /\ clusters["B"].current_node # None
  /\ default_cluster = "B"

(***************************************************************************)
(* C8: a transport failure during execute clears the cached connection     *)
(***************************************************************************)
EXEC == "execute"

\* C8: when execute fails with a transport-level error the call raises without
\* reconnecting or re-running the command, the cached connection reference is
\* cleared, and a later execute on that transport runs its command on a freshly
\* established connection.
C8_TransportFailureClearsConnection ==
  [][\A t \in Tasks :
       /\ CommandBreaks(t) =>
            /\ outcome' = [op |-> EXEC, value |-> "SSHCommandError:ssh"]
            /\ task'[t].pc = "idle"
            /\ task[t].issued = 1
            /\ ssh'[task[t].client].connection = 0
            /\ ssh'[task[t].client].serial = ssh[task[t].client].serial
       /\ Issues(t) =>
            /\ ssh'[task'[t].client].connection # 0
            /\ task'[t].used = ssh'[task'[t].client].connection
            /\ task'[t].used \notin ghost[task'[t].client].failed]_vars

\* a command is running on a connection established after an earlier failure
C8_Witness ==
  \E t \in Tasks :
    /\ task[t].pc = "running"
    /\ ghost[task[t].client].failed # {}
    /\ task[t].used \notin ghost[task[t].client].failed

(***************************************************************************)
(* C9: a connectivity failure invalidates the NodeConnection               *)
(***************************************************************************)
\* C9: when a command run through a pooled transport fails with a connectivity
\* error, the connected flag of the affected NodeConnection is false afterwards.
C9_FailureInvalidatesNodeConnection ==
  [][\A t \in Tasks :
       CommandBreaks(t) =>
         LET x == task[t].client IN
         ~clusters'[ssh[x].cluster].node_connections[ssh[x].hostname].connected]_vars

(***************************************************************************)
(* C10: every execute carries a timeout and never retries                  *)
(***************************************************************************)
\* C10: every execute call runs its command with the caller's timeout, else the
\* configured command_timeout; when the command exceeds it the call raises a
\* timeout error, the command has been issued exactly once and the cached
\* connection is kept.
C10_TimeoutNoRetry ==
  [][\A t \in Tasks :
       /\ \A c \in ClusterNames, timeout \in TimeoutInputs, check \in BOOLEAN :
            (CallExecute(t, c, timeout, check) /\ task'[t].pc = "running")
            => task'[t].timeout = IF timeout = 0 THEN Config(c).command_timeout ELSE timeout
       /\ (Issues(t) /\ task[t].pc # "idle")
            => task'[t].timeout = IF task[t].timeout = 0
                                  THEN Config(task[t].cluster).command_timeout
                                  ELSE task[t].timeout
       /\ Issues(t) => task'[t].issued = 1 /\ task'[t].timeout > 0
       /\ CommandTimesOut(t) =>
            /\ \E d \in Durations : d > task[t].timeout
            /\ outcome' = [op |-> EXEC, value |-> "SSHCommandError:timeout"]
            /\ task'[t].pc = "idle"
            /\ task[t].issued = 1
            /\ ssh' = ssh]_vars

\* a command timed out and the transport still holds its connection
C10_Witness ==
  /\ outcome = [op |-> EXEC, value |-> "SSHCommandError:timeout"]
  /\ \E x \in DOMAIN ssh : ssh[x].connection # 0

(***************************************************************************)
(* C11: SSHClient.connect is idempotent and safe under concurrency         *)
(***************************************************************************)
\* the transport holds a connection that is not closed
LiveIn(clients, x) == clients[x].connection # 0 /\ ~clients[x].closed

Establishing(x) == {t \in Tasks : task[t].client = x /\ task[t].pc = "ssh_connecting"}

C11_State ==
  \A x \in DOMAIN ssh :
    /\ Cardinality(Establishing(x)) <= 1
    /\ Establishing(x) # {} => ~LiveIn(ssh, x)

C11_Step ==
  \A x \in DOMAIN ssh :
    /\ ssh'[x].serial # ssh[x].serial =>
         /\ ~LiveIn(ssh, x)
         /\ ssh'[x].serial = ssh[x].serial + 1
         /\ ssh'[x].connection = ssh'[x].serial
    /\ \A t \in Tasks :
         /\ (SSHLockGranted(t) /\ task[t].client = x /\ task[t].ctx # "disc" /\ LiveIn(ssh, x))
            => /\ ssh'[x].serial = ssh[x].serial
               /\ ssh'[x].connection = ssh[x].connection
               /\ LiveIn(ssh', x)
               /\ task'[t].pc # "ssh_connecting"
         /\ (ConnectSucceeds(t) /\ task[t].client = x) => LiveIn(ssh', x)

\* C11: connect on a connected transport returns without establishing anything,
\* and connect calls made by several tasks at once (by get_cluster_instances or by
\* ensure_connected in execute) establish one connection at a time and only while
\* the transport holds no live connection; a connect that returns leaves
\* is_connected true.
C11_ConnectIdempotent == []C11_State /\ [][C11_Step]_vars

\* a connect call found the transport already connected and it still is
C11_Witness == \E x \in DOMAIN ssh : ghost[x].reused /\ LiveIn(ssh, x)

(***************************************************************************)
(* C12: SSHClient.disconnect is idempotent                                 *)
(***************************************************************************)
\* the connected flag of transport x's NodeConnection
Flag(cl, x) == cl[ssh[x].cluster].node_connections[ssh[x].hostname].connected

DisconnectOps == {"disconnect_node", "disconnect_cluster", "disconnect_all"}

\* C12: when disconnect returns (the pool then clears the connected flag) the
\* transport holds no connection and is_connected is false; a disconnect that did
\* not have to close anything found no connection and changed nothing; no
\* disconnect raises; and a
\* connect that succeeds afterwards makes is_connected true again.
C12_DisconnectIdempotent ==
  [][/\ \A x \in DOMAIN ssh :
          (Flag(clusters, x) /\ ~Flag(clusters', x)) =>
            /\ ssh'[x].connection = 0
            /\ ~LiveIn(ssh', x)
            /\ (\A t \in Tasks : ~(CloseCompletes(t) /\ task[t].client = x)) =>
                 /\ ssh[x].connection = 0
                 /\ ssh'[x].closed = ssh[x].closed
                 /\ ssh'[x].serial = ssh[x].serial
                 /\ ghost'[x].noop
     /\ \A t \in Tasks :
          /\ CloseCompletes(t) => ssh'[task[t].client].connection = 0
          /\ (ConnectSucceeds(t) /\ ssh[task[t].client].connection = 0
                                 /\ ssh[task[t].client].serial >= 1)
             => LiveIn(ssh', task[t].client)
     /\ (outcome' # outcome /\ outcome'.op \in DisconnectOps)
          => outcome'.value \in {"True", "False", "disconnected"}]_vars

\* a disconnect found the transport without a connection (a command failure had
\* cleared it) and left it so
C12_Witness ==
  \E x \in DOMAIN ssh :
    ghost[x].noop /\ ssh[x].connection = 0 /\ ssh[x].serial >= 1 /\ ~Flag(clusters, x)

(***************************************************************************)
(* Vocabulary of the session properties                                    *)
(***************************************************************************)
START == "start_session"
EXECC == "exec_command"
ENDS == "end_session"
GETS == "get_session"
SWEEP == "cleanup_stale_sessions"

JobStates == {"RUNNING", "PENDING", "COMPLETED", "CANCELLED"}

Allocated == {"RUNNING", "PENDING"}

\* the session ids handed out so far
Created == 1..Len(heap)

\* the time of a session's last command, else of its creation
Activity(objects, id) ==
  IF objects[id].last_command_time # NoTime
  THEN objects[id].last_command_time ELSE objects[id].start_time

(***************************************************************************)
(* C13: a failed allocation registers no session                           *)
(***************************************************************************)
HasGrant(output) ==
  \E i \in 1..Len(output) : \E n \in 0..9 :
    i + 3 <= Len(output)
    /\ SubSeq(output, i, i + 3) = <<"Granted", "job", "allocation", DigitChar(n)>>

\* C13: when the allocate command of start_session exits non-zero, or its output
\* has no 'Granted job allocation <id>', or it raises, start_session raises an
\* allocation error and the session table and the session objects are unchanged;
\* nothing is registered before the allocate command has returned.
C13_FailedAllocationRegistersNothing ==
  [][\A t \in Tasks :
       /\ \A result \in SallocResults :
            (SallocReturns(t, result)
             /\ (result.returncode # 0 \/ ~HasGrant(result.output)))
            => /\ sout'.op = START
               /\ sout'.value \in {"SSHCommandError:salloc", "SSHCommandError:parse"}
               /\ stask'[t] = IdleSTask
               /\ sessions' = sessions /\ heap' = heap
       /\ (RemoteFails(t) /\ stask[t].pc = "salloc")
            => sout'.value = "SSHCommandError" /\ sessions' = sessions /\ heap' = heap
       /\ CallStartSession(t) => sessions' = sessions /\ heap' = heap]_vars

\* an allocation was refused while another session is registered
C13_Witness ==
  /\ sout.op = START
  /\ sout.value \in {"SSHCommandError:salloc", "SSHCommandError:parse"}
  /\ sessions # << >>

(***************************************************************************)
(* C14: a registered session is active and carries its last-activity time  *)
(***************************************************************************)
\* C14: every session in the live table has status 'active', the allocation id
\* the allocate command returned, and a last-activity time that is present and
\* not before its creation time.
C14_RegisteredSessionHasActivity ==
  \A i \in 1..Len(sessions) :
    LET session == heap[sessions[i]] IN
    /\ session.status = "active"
    /\ session.job_id \in DOMAIN jobs
    /\ session.last_command_time # NoTime
    /\ session.last_command_time >= session.start_time

(***************************************************************************)
(* C15: exec_command on a missing or inactive session                      *)
(***************************************************************************)
\* C15: exec_command on a session id that is not in the live table raises
\* not-found and changes nothing; exec_command issues the caller's command only
\* for a session that is in the table with status 'active', against that
\* session's allocation; when its liveness check ends with the session out of the
\* table or not active, it raises and issues nothing.
C15_ExecNeedsActiveSession ==
  [][\A t \in Tasks :
       /\ \A id \in SessionIds :
            (CallExecCommand(t, id) /\ ~Listed(sessions, id))
            => /\ sout' = [op |-> EXECC, id |-> id, value |-> "ValueError:not_found",
                           cleaned |-> 0, listed |-> << >>]
               /\ stask'[t] = IdleSTask
               /\ UNCHANGED <<sessions, heap, jobs, cancels>>
       /\ (stask'[t].op = EXECC /\ stask'[t].pc = "srun" /\ stask[t].pc # "srun")
            => /\ Listed(sessions', stask'[t].session_id)
               /\ heap'[stask'[t].session_id].status = "active"
               /\ stask'[t].job = heap'[stask'[t].session_id].job_id
       /\ (DetailsCompletes(t) /\ stask[t].op = EXECC
           /\ (~Listed(sessions', stask[t].session_id)
               \/ heap'[stask[t].session_id].status # "active"))
            => /\ stask'[t] = IdleSTask
               /\ sout'.value \in {"ValueError:not_found", "ValueError:not_active"}]_vars

\* exec_command refused a session that a concurrent call removed while its
\* liveness check was in flight
C15_Witness ==
  /\ sout.op = EXECC
  /\ sout.value = "ValueError:not_active"
  /\ ~Listed(sessions, sout.id)

(***************************************************************************)
(* C16: every returning command updates last-activity                      *)
(***************************************************************************)
\* C16: when the remote command of exec_command returns, with a zero or a
\* non-zero exit code, for a session still in the live table, the session's
\* last-activity time becomes the current time; when the command raises, the
\* session objects are left unchanged.
C16_ReturnUpdatesActivity ==
  [][\A t \in Tasks :
       /\ \A rc \in ReturnCodes :
            (SrunReturns(t, [returncode |-> rc]) /\ Listed(sessions, stask[t].session_id))
            => /\ heap'[stask[t].session_id].last_command_time = now
               /\ Listed(sessions', stask[t].session_id)
               /\ sout'.value = IF rc = 0 THEN "success" ELSE "failed"
       /\ (RemoteFails(t) /\ stask[t].pc = "srun")
            => heap' = heap /\ sout'.value = "SSHCommandError"]_vars

\* a command that exited non-zero advanced the session's last-activity time
C16_Witness ==
  /\ sout.op = EXECC
  /\ sout.value = "failed"
  /\ Listed(sessions, sout.id)
  /\ heap[sout.id].last_command_time = now
  /\ now > heap[sout.id].start_time

EndSessionSteps(t) ==
  /\ \A id \in SessionIds :
       CallEndSession(t, id) =>
         IF Listed(sessions, id)
         THEN /\ stask'[t].pc = "scancel"
              /\ stask'[t].job = heap[id].job_id
              /\ heap[id].job_id \in cancels'
              /\ sessions' = sessions
         ELSE /\ sout' = [op |-> ENDS, id |-> id, value |-> "False", cleaned |-> 0,
                           listed |-> << >>]
              /\ stask'[t] = IdleSTask
              /\ UNCHANGED <<sessions, heap, jobs, cancels>>
  /\ \A rc \in ReturnCodes :
       (ScancelReturns(t, [returncode |-> rc]) /\ stask[t].op = ENDS)
       => /\ ~Listed(sessions', stask[t].session_id)
          /\ heap'[stask[t].session_id].status = "ended"
          /\ sout'.value = IF rc = 0 THEN "True" ELSE "False"

\* C18 as stated: end_session for an id in the live table issues a cancel against
\* the session's allocation and, however the call ends, the session is then out
\* of the table; for an id not in the table it returns false, issues no cancel
\* and changes nothing.
C18_EndSessionAlwaysRemoves ==
  [][\A t \in Tasks :
       /\ EndSessionSteps(t)
       /\ (stask[t].op = ENDS /\ stask[t].pc = "scancel" /\ stask'[t].pc = "idle")
          => ~Listed(sessions', stask[t].session_id)]_vars

\* C18 amended: end_session for an id in the live table issues a cancel against
\* the session's allocation; when the cancel command returns, with any exit code,
\* the session is marked ended and removed from the table; when the cancel
\* command raises, end_session raises and the table is unchanged; for an id not
\* in the table it returns false, issues no cancel and changes nothing.
C18_EndSessionRemovesOnReturn ==
  [][\A t \in Tasks :
       /\ EndSessionSteps(t)
       /\ (RemoteFails(t) /\ stask[t].pc = "scancel" /\ stask[t].op = ENDS)
          => /\ sessions' = sessions /\ heap' = heap
             /\ sout'.value = "SSHCommandError"]_vars

\* end_session cancelled the allocation and removed the session
C18_Witness ==
  /\ sout.op = ENDS
  /\ sout.value = "True"
  /\ sout.id \in Created
  /\ ~Listed(sessions, sout.id)
  /\ heap[sout.id].job_id \in cancels
  /\ jobs[heap[sout.id].job_id] = "CANCELLED"

(***************************************************************************)
(* C19: the idle-timeout sweep                                             *)
(***************************************************************************)
\* C19: when cleanup_stale_sessions completes with no concurrent operation, no
\* session is left in the table whose allocation is RUNNING or PENDING and whose
\* idle time (measured from its last command, or from its creation if it never
\* ran one) already exceeded interactive_session_timeout when the sweep started;
\* and the sweep cancels a session only if its idle time exceeds the timeout.
C19_IdleSweep ==
  [][\A t \in Tasks :
       /\ (/\ stask[t].op = SWEEP /\ stask[t].alone
           /\ stask[t].pc # "idle" /\ stask'[t].pc = "idle"
           /\ sout'.value = "cleaned")
          => \A i \in 1..Len(sessions') :
               LET id == sessions'[i] IN
               ~(/\ jobs'[heap'[id].job_id] \in Allocated
                 /\ stask[t].t0 - Activity(heap', id) > InteractiveSessionTimeout)
       /\ (stask'[t].op = SWEEP /\ stask'[t].pc = "scancel" /\ stask[t].pc # "scancel")
          => now - Activity(heap, stask'[t].session_id) > InteractiveSessionTimeout]_vars

(***************************************************************************)
(* C20: session-table atomicity                                            *)
(***************************************************************************)
C20_State ==
  /\ \A id \in Created : Listed(sessions, id) <=> heap[id].status = "active"
  /\ \A i, j \in 1..Len(sessions) : sessions[i] = sessions[j] => i = j
  /\ \A i \in 1..Len(sessions) : sessions[i] \in Created

C20_Step ==
  /\ \A id \in Created :
       ~Listed(sessions, id) => ~Listed(sessions', id) /\ heap'[id] = heap[id]
  /\ \A t \in Tasks, rc \in ReturnCodes :
       (SrunReturns(t, [returncode |-> rc]) /\ ~Listed(sessions, stask[t].session_id))
       => /\ sessions' = sessions /\ heap' = heap
          /\ sout'.value = IF rc = 0 THEN "success" ELSE "failed"

\* C20: under every interleaving of exec_command with end_session, get_session
\* and cleanup_stale_sessions, a session that has been removed from the live
\* table is never updated, never re-inserted and never listed again; the table
\* lists exactly the sessions whose status is 'active', each once.
C20_SessionTableAtomicity == []C20_State /\ [][C20_Step]_vars

\* a command returned for a session that a concurrent call had removed
C20_Witness ==
  /\ sout.op = EXECC
  /\ sout.value \in {"success", "failed"}
  /\ sout.id \in Created
  /\ ~Listed(sessions, sout.id)
  /\ heap[sout.id].status = "ended"

(***************************************************************************)
(* C21 to C30                                                              *)
(***************************************************************************)
SessionTools == {EXECC, ENDS, GETS, "list_sessions"}

\* the session was registered and returned by a start request, has not been
\* ended or reconciled away, and its allocation is alive
Usable(id) ==
  /\ heap[id].status = "active"
  /\ jobs[heap[id].job_id] \in {"RUNNING", "PENDING"}

\* this step is a request of the tool op; for a tool that names a session, for id
Requested(op, id) ==
  /\ sops' = sops + 1
  /\ \/ \E t \in Tasks :
          /\ stask[t].pc = "idle" /\ stask'[t].pc # "idle"
          /\ stask'[t].op = op
          /\ op = "list_sessions" \/ stask[t].session_id = id \/ stask'[t].session_id = id
     \/ /\ \A t \in Tasks : stask'[t].pc = stask[t].pc
        /\ sout'.op = op
        /\ op = "list_sessions" \/ sout'.id = id

\* the request found the session in its manager's table: it now waits for the
\* scheduler's answer about it, or (a listing) still has it to visit
Found(id) ==
  \E t \in Tasks :
    /\ stask[t].pc = "idle"
    /\ stask'[t].pc \in {"details", "scancel"}
    /\ stask'[t].session = id \/ Listed(stask'[t].ids, id)

\* C21: after start_session has registered a session, every later exec, get, list
\* and end request made through the session tools finds the session under its id,
\* as long as it has not been ended and its allocation is alive
C21_SessionUsableAcrossRequests ==
  [][\A id \in DOMAIN heap :
       (Usable(id) /\ \E op \in SessionTools : Requested(op, id)) => Found(id)]_vars

\* C22: the job_id of a session is the allocation id salloc returned to the
\* start_session that registered it, and no step of exec_command, get_session,
\* list_sessions, cleanup_stale_sessions or end_session changes it.
C22_JobIdNeverChanges ==
  [][/\ \A id \in DOMAIN heap : heap'[id].job_id = heap[id].job_id
     /\ \A id \in DOMAIN heap' \ DOMAIN heap :
          \E t \in Tasks :
            /\ stask[t].pc = "details_new"
            /\ stask[t].op = START
            /\ heap'[id].job_id = stask[t].job
            /\ Listed(sessions', id)]_vars

\* a listed session whose allocation id differs from its session id has been
\* reconciled and returned by list_sessions
C22_Witness ==
  \E id \in DOMAIN heap :
    /\ Listed(sessions, id)
    /\ heap[id].job_id # id
    /\ sout.op = "list_sessions"
    /\ Listed(sout.listed, id)

\* C23: whatever the submit command does (accepted, exit code non-zero, output
\* without an id, error raised), submit_job next attempts to delete the script it
\* wrote, at the same path, and only then returns or raises; the result or error
\* of the submit stands whether the delete succeeds or fails.
C23_ScriptDeletedWhateverTheOutcome ==
  [][/\ (submission.pc = "sbatch" /\ submission'.pc # "sbatch") =>
          /\ submission'.pc = "delete"
          /\ submission'.deleting = submission.script_path
          /\ submission.script_path = ScriptPath(submission.calls)
     /\ (submission.pc = "delete" /\ submission'.pc # "delete") =>
          /\ submission'.pc = "idle"
          /\ submission'.result = submission.pending
          /\ submission'.files \in {submission.files,
                                    submission.files \ {submission.script_path}}]_vars

\* a submit that raised has returned its error after the script was deleted, and
\* an earlier call's script is still there because its delete failed
C23_Witness ==
  /\ submission.pc = "idle"
  /\ submission.result.error = "SSHCommandError:execute"
  /\ submission.script_path \notin submission.files
  /\ submission.files # {}

\* the leftmost position of stdout at which 'Submitted batch job ' is followed by
\* a digit
FirstAnnouncement(stdout) ==
  {i \in 1..Len(stdout) :
     /\ OccursAt(stdout, SubmittedBatchJob, i)
     /\ i + Len(SubmittedBatchJob) <= Len(stdout)
     /\ IsDigit(Chr(stdout, i + Len(SubmittedBatchJob)))
     /\ \A j \in 1..(i - 1) :
          ~(/\ OccursAt(stdout, SubmittedBatchJob, j)
            /\ j + Len(SubmittedBatchJob) <= Len(stdout)
            /\ IsDigit(Chr(stdout, j + Len(SubmittedBatchJob))))}

\* the id that stdout announces: the number whose digits follow there
Announced(stdout) ==
  UNION {{DigitsValue(SubSeq(stdout, i + Len(SubmittedBatchJob), k)) :
            k \in {k \in (i + Len(SubmittedBatchJob))..Len(stdout) :
                     /\ isdigit(SubSeq(stdout, i + Len(SubmittedBatchJob), k))
                     /\ k = Len(stdout) \/ ~IsDigit(Chr(stdout, k + 1))}} :
         i \in FirstAnnouncement(stdout)}

\* C24: sbatch returns the id n exactly when the submit command exits with zero
\* and its stdout contains 'Submitted batch job n'; in every other case it raises
\* an error that carries the captured output and yields no id.
C24_SbatchIdOrError ==
  [][\A result \in SbatchResults :
       SbatchReturns(result) =>
         LET raised == submission'.pending IN
         IF result.returncode = 0 /\ Announced(result.stdout) # {}
         THEN raised.error = "none" /\ Announced(result.stdout) = {raised.job_id}
         ELSE /\ raised.error # "none"
              /\ raised.job_id = 0
              /\ raised.output = IF result.returncode = 0 THEN result.stdout
                                  ELSE result.stderr]_vars

\* submit_job has returned the id 345 announced on the second line of stdout
C24_Witness ==
  /\ submission.pc = "idle"
  /\ submission.result = [error |-> "none", job_id |-> 345, output |-> NoOutput]

\* C25: every command issued by srun_in_allocation or srun_command runs with a
\* timeout of at least the configured minimum (300 seconds, or command_timeout
\* when that is larger), whatever timeout the caller gave, small or none.
C25_TimeoutFloor ==
  srun_call.op # "none" =>
    srun_call.executed >= Max(MinInteractiveTimeout, srun_call.command_timeout)

\* the tasks that close transport x for a disconnect_node call
Closing(x) ==
  {t \in Tasks : task[t].ctx = "disc" /\ task[t].client = x
                 /\ task[t].pc \in {"ssh_wait", "ssh_closing"}}

\* the lock that guards connection establishment is held by every task that
\* establishes a NodeConnection's transport for get_cluster_instances or closes it;
\* no transport is being established and closed at once
C26_State ==
  \A x \in DOMAIN ssh :
    /\ \A t \in Connecting(x) \cup Closing(x) : Holds(mgr_lock, t)
    /\ ~(\E t, u \in Tasks : /\ task[t].client = x /\ task[t].pc = "ssh_connecting"
                             /\ task[u].client = x /\ task[u].pc = "ssh_closing")

\* the NodeConnections a disconnect call covers
InScope(op, cluster_name) ==
  {x \in DOMAIN ssh : op = "disconnect_all" \/ ssh[x].cluster = cluster_name}

C26_Step ==
  \A t \in Tasks :
    \* the connected flag is cleared by a disconnect that holds that lock, or that
    \* takes the free lock and clears the flag without suspending
    /\ \A x \in DOMAIN ssh :
         (Flag(clusters, x) /\ ~Flag(clusters', x))
         => \/ mgr_lock = << >>
            \/ \E u \in Tasks : /\ task[u].op \in DisconnectOps
                                /\ task[u].client = x
                                /\ Holds(mgr_lock, u)
    \* a whole-cluster or all-clusters disconnect that ran without a concurrent
    \* resolution leaves every NodeConnection in its scope disconnected
    /\ (/\ task[t].op \in {"disconnect_cluster", "disconnect_all"}
        /\ task'[t].pc = "idle"
        /\ task[t].alone)
       => \A x \in InScope(task[t].op, task[t].cluster) : ~Flag(clusters', x)
    /\ \A cluster_name \in ClusterInputs :
         (/\ CallDisconnectCluster(t, cluster_name)
          /\ task'[t].pc = "idle"
          /\ \A v \in Tasks \ {t} : task[v].op # "get_cluster_instances")
         => \A x \in InScope("disconnect_cluster", cluster_name) : ~Flag(clusters', x)

\* C26: the disconnect operations close a transport and clear its connected flag
\* only while holding the lock that guards connection establishment, so a connect
\* and a disconnect of one NodeConnection never overlap; and when disconnect_cluster
\* or disconnect_all returns without a concurrent resolution, every NodeConnection
\* in its scope has connected = false.
C26_DisconnectUnderLock == []C26_State /\ [][C26_Step]_vars

\* a disconnect_all that ran by itself has closed a connected transport and is
\* about to clear the flag, while another caller waits for the lock
C26_Witness ==
  \E t \in Tasks, x \in DOMAIN ssh :
    /\ task[t].op = "disconnect_all"
    /\ task[t].alone
    /\ task[t].pc = "ssh_closing"
    /\ task[t].client = x
    /\ Flag(clusters, x)
    /\ Len(mgr_lock) > 1

\* the text of a part before its parenthesised suffix, cut at the colons
Fields(part) == split(split(strip(part), "(")[1], ":")

\* a part that describes GPUs with an integer count
Counted(part) ==
  /\ startswith(strip(part), "gpu")
  /\ Len(Fields(part)) >= 2
  /\ IsInt(Fields(part)[IF Len(Fields(part)) = 2 THEN 2 ELSE 3])

\* the type two-part descriptors get: the first feature tag (lower case) that
\* contains a known GPU family, else the placeholder
Inferred(features) ==
  LET tags == words(replace(lower(features), ",", " "))
      family(tag) == \E k \in 1..Len(known_gpus) : Occurs(tag, known_gpus[k])
  IN IF \E i \in 1..Len(tags) : family(tags[i])
     THEN tags[CHOOSE i \in 1..Len(tags) :
                 family(tags[i]) /\ \A j \in 1..(i - 1) : ~family(tags[j])]
     ELSE "gpu"

\* C29: _parse_gres yields, in order, one record per comma-separated part that
\* starts with gpu and carries an integer count: gpu:type:count gives the explicit
\* type, gpu:count the type inferred from the features (else 'gpu'); a suffix in
\* parentheses is ignored and every other part is skipped without an error.
C29_GresRecords ==
  gres_call.parsed =>
    LET list == split(gres_call.gres_str, ",")
        good == SelectSeq([i \in 1..Len(list) |-> i], LAMBDA i : Counted(list[i]))
        gpus == gres_call.gpus
    IN /\ Len(gpus) = Len(good)
       /\ \A k \in 1..Len(good) :
            LET fields == Fields(list[good[k]]) IN
            IF Len(fields) = 2
            THEN gpus[k] = [gpu_type |-> Inferred(gres_call.features),
                            count |-> IntValue(fields[2])]
            ELSE gpus[k] = [gpu_type |-> fields[2], count |-> IntValue(fields[3])]
       /\ gres_call.gres_str = "gpu:a100:4" => gpus = <<[gpu_type |-> "a100", count |-> 4]>>
       /\ (gres_call.gres_str = "gpu:8" /\ gres_call.features = "H100")
            => gpus = <<[gpu_type |-> "h100", count |-> 8]>>
       /\ gres_call.gres_str = "gpu:a100:2,gpu:v100:4"
            => gpus = <<[gpu_type |-> "a100", count |-> 2], [gpu_type |-> "v100", count |-> 4]>>
       /\ gres_call.gres_str = "gpu:8(S:0-1)" => Len(gpus) = 1 /\ gpus[1].count = 8
       /\ gres_call.gres_str \in {"gpu:x", "gpu:a100:many", "mps:100", "gpu"} => gpus = << >>

\* a descriptor with a skipped part between a two-part and a three-part one has
\* been parsed under features that name a GPU family
C29_Witness ==
  /\ gres_call.parsed
  /\ gres_call.gres_str = "gpu:2,tmpdisk:10,gpu:v100:1"
  /\ gres_call.features = "location=ap-tokyo-1,GPU,H100"
  /\ gres_call.gpus = <<[gpu_type |-> "h100", count |-> 2], [gpu_type |-> "v100", count |-> 1]>>

\* the lines get_partitions reads: the non-blank lines of the output with at
\* least seven fields, each cut into its fields
PartitionRows ==
  LET lines == split(strip(sinfo_p.stdout), "\n")
      cut == [i \in 1..Len(lines) |-> split(lines[i], "|")]
  IN SelectSeq(cut, LAMBDA parts : Len(parts) >= 7)

RowName(parts) == rstrip(parts[1], "*")

RECURSIVE Sum(_)

Sum(numbers) == IF numbers = << >> THEN 0 ELSE Head(numbers) + Sum(Tail(numbers))

\* element k of a four-part a/i/o/t field of a row, read as a number
Component(field, k) ==
  LET group == split(field, "/") IN
  IF Len(group) = 4 /\ isdigit(group[k]) THEN DigitsValue(group[k]) ELSE 0

\* the named GPU types and the GPU count a row reports
RowGpus(parts) == parse_gres(parts[6], IF Len(parts) > 7 THEN parts[8] ELSE "")

\* C27: get_partitions returns one entry per distinct partition name, and for the
\* rows sharing a name the entry's total_nodes, available_nodes, total_cpus,
\* available_cpus and total_gpus are the sums over those rows (available_* from
\* the idle component of the a/i/o/t field) and gpu_types is the union of the
\* rows' types; cpu fields 4/6/0/10 and 2/8/0/10 merge to 14 available of 20.
C27_PartitionMerge ==
  (sinfo_p # Unused /\ sinfo_p.returned /\ sinfo_p.success) =>
    LET rows == PartitionRows
        partitions == sinfo_p.partitions
        sharing(name) == SelectSeq(rows, LAMBDA parts : RowName(parts) = name)
        over(name, value(_)) ==
          Sum([i \in 1..Len(sharing(name)) |-> value(sharing(name)[i])])
        nodes_total(parts) == IF isdigit(parts[4]) THEN DigitsValue(parts[4]) ELSE 0
        nodes_idle(parts) == Component(parts[7], 2)
        cpus_total(parts) == Component(parts[5], 4)
        cpus_idle(parts) == Component(parts[5], 2)
        gpus_total(parts) == Sum([i \in 1..Len(RowGpus(parts)) |-> RowGpus(parts)[i].count])
    IN /\ \A i, j \in 1..Len(partitions) : partitions[i].name = partitions[j].name => i = j
       /\ {partitions[i].name : i \in 1..Len(partitions)}
            = {RowName(rows[i]) : i \in 1..Len(rows)}
       /\ \A i \in 1..Len(partitions) :
            LET entry == partitions[i] IN
            /\ entry.total_nodes = over(entry.name, nodes_total)
            /\ entry.available_nodes = over(entry.name, nodes_idle)
            /\ entry.total_cpus = over(entry.name, cpus_total)
            /\ entry.available_cpus = over(entry.name, cpus_idle)
            /\ entry.total_gpus = over(entry.name, gpus_total)
            /\ entry.gpu_types =
                 UNION {{RowGpus(parts)[k].gpu_type : k \in 1..Len(RowGpus(parts))} \ {"gpu"} :
                          parts \in {sharing(entry.name)[k] : k \in 1..Len(sharing(entry.name))}}
       /\ \A i \in 1..Len(partitions) :
            ({parts[5] : parts \in {sharing(partitions[i].name)[k] :
                                      k \in 1..Len(sharing(partitions[i].name))}}
               = {"4/6/0/10", "2/8/0/10"} /\ Len(sharing(partitions[i].name)) = 2)
              => partitions[i].available_cpus = 14 /\ partitions[i].total_cpus = 20

\* the default partition was listed twice, with cpu fields 4/6/0/10 and 2/8/0/10,
\* beside another partition, and came back as one entry of 14 available of 20
C27_Witness ==
  /\ sinfo_p # Unused
  /\ sinfo_p.returned
  /\ sinfo_p.success
  /\ Len(PartitionRows) = 3
  /\ Len(sinfo_p.partitions) = 2
  /\ \E i \in 1..2 :
       /\ sinfo_p.partitions[i].name = "batch"
       /\ sinfo_p.partitions[i].available_cpus = 14
       /\ sinfo_p.partitions[i].total_cpus = 20
       /\ sinfo_p.partitions[i].total_nodes = 5
       /\ sinfo_p.partitions[i].gpu_types = {"a100"}

\* the lines get_nodes reads, as they were printed: the non-blank lines of the
\* output with at least nine fields
NodeRows ==
  LET lines == split(strip(sinfo_n.stdout), "\n") IN
  SelectSeq(lines, LAMBDA line : Len(split(line, "|")) >= 9)

\* C28: get_nodes returns one entry per distinct node name; a repeated row for a
\* node only adds its partition to the node's partition list, when the partition
\* is not empty and not there already, and every other field of the entry is what
\* the first row of the node alone gives.
C28_NodeRowsOncePerName ==
  (sinfo_n # Unused /\ sinfo_n.returned /\ sinfo_n.success) =>
    LET rows == NodeRows
        nodes == sinfo_n.nodes
        name(i) == split(rows[i], "|")[1]
        partition(i) == split(rows[i], "|")[7]
    IN /\ \A i, j \in 1..Len(nodes) : nodes[i].node_name = nodes[j].node_name => i = j
       /\ {nodes[i].node_name : i \in 1..Len(nodes)} = {name(i) : i \in 1..Len(rows)}
       /\ \A n \in 1..Len(nodes) :
            LET of == {i \in 1..Len(rows) : name(i) = nodes[n].node_name}
                first == CHOOSE i \in of : \A j \in of : i <= j
                alone == get_nodes([success |-> TRUE, stdout |-> rows[first]])[1]
                base == Len(alone.partitions)
                partitions == nodes[n].partitions
                added == (base + 1)..Len(partitions)
            IN /\ [nodes[n] EXCEPT !.partitions = << >>] = [alone EXCEPT !.partitions = << >>]
               /\ SubSeq(partitions, 1, base) = alone.partitions
               /\ {partitions[k] : k \in added}
                    = {partition(i) : i \in of \ {first}}
                        \ ({""} \union {alone.partitions[k] : k \in 1..base})
               /\ \A k, l \in added : partitions[k] = partitions[l] => k = l

\* a node was listed three times: the second row named a new partition and other
\* resource figures, the third repeated the first
C28_Witness ==
  /\ sinfo_n # Unused
  /\ sinfo_n.returned
  /\ sinfo_n.success
  /\ NodeRows = <<"n1|idle|8|2/6/0/8|64|32|batch|gpu:a100:2|A100,ib",
                  "n1|mixed|16|4/12/0/16|128|1|gpu|gpu:4|H100",
                  "n1|idle|8|2/6/0/8|64|32|batch|gpu:a100:2|A100,ib">>
  /\ Len(sinfo_n.nodes) = 1
  /\ sinfo_n.nodes[1].partitions = <<"batch", "gpu">>
  /\ sinfo_n.nodes[1].cpus_total = 8
  /\ sinfo_n.nodes[1].state = "idle"

\* the whitespace-separated tokens of the dump, in order
Tokens == words(show_job.stdout)

\* the tokens that give the key: the text before their first '=' is the key
Giving(key) ==
  {i \in 1..Len(Tokens) : startswith(Tokens[i], key \o "=")}

Present(key) == Giving(key) # {}

\* the text after the first '=' of the last token that gives the key
LastValue(key) ==
  LET i == CHOOSE i \in Giving(key) : \A j \in Giving(key) : i >= j IN
  SubSeq(Tokens[i], Len(key) + 2, Len(Tokens[i]))

\* the entity's text field is the last value given for the key, else the default
TextField(field, key, default) ==
  show_job.out.job[field] = IF Present(key) THEN LastValue(key) ELSE default

\* C30: get_job_details splits each whitespace-separated token on its first '=',
\* keeps the last value of a duplicated key, leaves the field of every missing
\* key absent or at its default without raising, and returns absent, not an
\* error, when the scheduler reports an invalid job id or the dump has no JobId.
C30_JobDetailParsing ==
  (show_job # Unused /\ show_job.returned) =>
    LET out == show_job.out IN
    /\ (\/ ~show_job.success
        \/ Occurs(show_job.stderr, "Invalid job id")
        \/ ~Present("JobId")
        \/ LastValue("JobId") = "") => out.kind = "None"
    /\ out.kind = "None" =>
         \/ ~show_job.success
         \/ Occurs(show_job.stderr, "Invalid job id")
         \/ ~Present("JobId")
         \/ LastValue("JobId") = ""
    /\ out.kind = "ValueError" =>
         \E key \in {"JobId", "NumNodes", "NumCPUs", "ExitCode"} :
           Present(key) /\ ~IsInt(split(LastValue(key), ":")[1])
    /\ out.kind = "JobInfo" =>
         /\ out.job.job_id = IntValue(LastValue("JobId"))
         /\ TextField("job_name", "JobName", "unknown")
         /\ TextField("state", "JobState", "UNKNOWN")
         /\ TextField("partition", "Partition", "")
         /\ TextField("nodes", "NodeList", NoText)
         /\ TextField("memory", "MinMemoryNode", NoText)
         /\ TextField("time_limit", "TimeLimit", NoText)
         /\ TextField("time_used", "RunTime", NoText)
         /\ TextField("work_dir", "WorkDir", NoText)
         /\ TextField("stdout_path", "StdOut", NoText)
         /\ TextField("stderr_path", "StdErr", NoText)
         /\ TextField("reason", "Reason", NoText)
         /\ out.job.user = IF Present("UserId") THEN split(LastValue("UserId"), "(")[1] ELSE ""
         /\ out.job.num_nodes = IF Present("NumNodes") THEN IntValue(LastValue("NumNodes")) ELSE 1
         /\ out.job.num_cpus = IF Present("NumCPUs") THEN IntValue(LastValue("NumCPUs")) ELSE 1
         /\ ~Present("Gres") => out.job.num_gpus = 0
         /\ ~Present("ExitCode") => out.job.exit_code = << >>
         /\ ~Present("SubmitTime") => out.job.submit_time = NoTimestamp
         /\ ~Present("StartTime") => out.job.start_time = NoTimestamp
         /\ ~Present("EndTime") => out.job.end_time = NoTimestamp

\* a dump that gave JobId twice and a name holding an '=' was parsed: the later id
\* and the text after the first '=' are in the entity, the keys the dump left
\* out are at their defaults
C30_Witness ==
  /\ show_job # Unused
  /\ show_job.returned
  /\ show_job.stdout = "JobId=42 JobId=7\nJobName=a=b "
  /\ show_job.out.kind = "JobInfo"
  /\ show_job.out.job.job_id = 7
  /\ show_job.out.job.job_name = "a=b"
  /\ show_job.out.job.state = "UNKNOWN"
  /\ show_job.out.job.nodes = NoText
  /\ show_job.out.job.num_nodes = 1

RECURSIVE CountFrom(_, _, _)

CountFrom(s, sub, i) ==
  IF i + Len(sub) - 1 > Len(s) THEN 0
  ELSE IF OccursAt(s, sub, i) THEN 1 + CountFrom(s, sub, i + Len(sub))
  ELSE CountFrom(s, sub, i + 1)

\* the number of non-overlapping occurrences of sub in s, counted from the left
Count(s, sub) == CountFrom(s, sub, 1)

Unterminated == <<"unterminated quote">>

\* what one character does to the shell's reading of a line: mode says whether
\* the reader is in plain text, in single quotes, in double quotes or behind a
\* backslash; word is the word being read and done the words read
ShellStep(r, c) ==
  LET more == [r EXCEPT !.i = @ + 1, !.word = @ \o c, !.open = TRUE] IN
  CASE r.mode = "single" /\ c = "'" -> [r EXCEPT !.i = @ + 1, !.mode = "plain"]
    [] r.mode = "single" /\ c # "'" -> more
    [] r.mode = "double" /\ c = "\"" -> [r EXCEPT !.i = @ + 1, !.mode = "plain"]
    [] r.mode = "double" /\ c = "\\" -> [r EXCEPT !.i = @ + 1, !.mode = "double escape"]
    [] r.mode = "double" /\ c \notin {"\"", "\\"} -> more
    [] r.mode = "double escape" /\ c \in {"\"", "\\"} -> [more EXCEPT !.mode = "double"]
    [] r.mode = "double escape" /\ c \notin {"\"", "\\"} ->
         [more EXCEPT !.word = r.word \o "\\" \o c, !.mode = "double"]
    [] r.mode = "escape" -> [more EXCEPT !.mode = "plain"]
    [] r.mode = "plain" /\ c = "'" -> [r EXCEPT !.i = @ + 1, !.mode = "single", !.open = TRUE]
    [] r.mode = "plain" /\ c = "\"" -> [r EXCEPT !.i = @ + 1, !.mode = "double", !.open = TRUE]
    [] r.mode = "plain" /\ c = "\\" -> [r EXCEPT !.i = @ + 1, !.mode = "escape"]
    [] r.mode = "plain" /\ c \in Whitespace ->
         [r EXCEPT !.i = @ + 1, !.word = "", !.open = FALSE,
                   !.done = IF r.open THEN Append(@, r.word) ELSE @]
    [] OTHER -> more

RECURSIVE ShellRead(_, _)

ShellRead(line, r) ==
  IF r.i > Len(line) THEN r ELSE ShellRead(line, ShellStep(r, Chr(line, r.i)))

\* the words a POSIX shell reads from a line made of plain text, single quotes,
\* double quotes and backslashes, after quote removal; Unterminated when a
\* quote stays open
ShellWords(line) ==
  LET r == ShellRead(line, [i |-> 1, mode |-> "plain", word |-> "", open |-> FALSE,
                            done |-> << >>])
  IN IF r.mode \notin {"plain", "escape"} THEN Unterminated
     ELSE IF r.open THEN Append(r.done, r.word) ELSE r.done

RECURSIVE Without(_, _)

\* the text with every occurrence of sub, found from the left, taken out
Without(text, sub) ==
  IF Len(text) = 0 THEN ""
  ELSE IF OccursAt(text, sub, 1) THEN Without(SubSeq(text, Len(sub) + 1, Len(text)), sub)
  ELSE Chr(text, 1) \o Without(SubSeq(text, 2, Len(text)), sub)

\* the text with every escape sequence taken out
Unescaped(text) == Without(text, "'\\''")

\* the text with every single quote taken out
Unquoted(text) == Without(text, "'")

\* C31: _escape_for_single_quotes replaces every single quote of the command by
\* the four characters '\'' and changes nothing else: a command without single
\* quotes comes back unchanged, k single quotes give exactly k escape sequences,
\* and the command that srun_command and srun_in_allocation embed as
\* bash -c '<escaped>' is read by the shell as one word, the command itself.
C31_ShellEscaping ==
  srun_call.op # "none" =>
    LET full_command == IF srun_call.working_directory # ""
                        THEN "cd " \o srun_call.working_directory \o " && " \o srun_call.command
                        ELSE srun_call.command
        escaped == escape_for_single_quotes(full_command)
        quotes == Count(full_command, "'")
        head == Find(srun_call.cmd, " bash -c '")
    IN /\ quotes = 0 => escaped = full_command
       /\ Count(escaped, "'\\''") = quotes
       /\ Len(escaped) = Len(full_command) + 3 * quotes
       /\ Unescaped(escaped) = Unquoted(full_command)
       /\ ShellWords("bash -c '" \o escaped \o "'") = <<"bash", "-c", full_command>>
       /\ ShellWords(srun_call.cmd)
            = ShellWords(SubSeq(srun_call.cmd, 1, head - 1)) \o <<"bash", "-c", full_command>>

\* a command with four single quotes was wrapped for an allocation, under a
\* working directory
C31_Witness ==
  /\ srun_call.op = "srun_in_allocation"
  /\ srun_call.command = "echo 'one' && echo 'two'"
  /\ srun_call.working_directory = "/data"
  /\ srun_call.cmd
       = "srun --jobid=42 bash -c 'cd /data && echo '\\''one'\\'' && echo '\\''two'\\'''"

\* the default cluster names a configured cluster, or is null with none configured
C32_State ==
  \/ default_cluster \in DOMAIN clusters
  \/ DOMAIN clusters = {} /\ default_cluster = NoCluster

C32_Step ==
  \A t \in Tasks, cluster_name \in ClusterInputs \ {NoCluster} :
    CallSetDefaultCluster(t, cluster_name) =>
      IF cluster_name \in DOMAIN clusters
      THEN default_cluster' = cluster_name /\ outcome'.value = "set"
      ELSE default_cluster' = default_cluster /\ outcome'.value = "ValueError"

\* C32: after initialize the default cluster always names a configured cluster
\* (or is null when none is configured); set_default_cluster with a configured
\* name sets it, and with an unknown name raises and leaves it unchanged.
C32_DefaultClusterConfigured == []C32_State /\ [][C32_Step]_vars

\* the same for the configurations that name at least one cluster
C32_WithClusters == [](DOMAIN clusters # {} => C32_State) /\ [][C32_Step]_vars

\* task t's end_session call returns in this step with an answer (it does not raise)
EndSessionAnswers(t) ==
  /\ \/ \E id \in SessionIds : CallEndSession(t, id)
     \/ stask[t].op = ENDS /\ stask[t].pc = "scancel"
  /\ stask'[t].pc = "idle"
  /\ sout'.op = ENDS
  /\ sout'.value \in {"True", "False"}

\* C33: end_session returns true exactly when the session was present and has
\* been ended: whenever it returns, the id is not in the table; it answers false
\* only when the id was not in the table at the call, and true only after the
\* session it found there has been removed.
C33_EndSessionAnswer ==
  [][\A t \in Tasks :
       EndSessionAnswers(t) =>
         /\ ~Listed(sessions', sout'.id)
         /\ sout'.value = "False" => (stask[t].pc = "idle" /\ ~Listed(sessions, sout'.id))
         /\ sout'.value = "True" => stask[t].pc = "scancel"]_vars

\* task t's get_session (direct, or inside list_sessions, exec_command or
\* cleanup_stale_sessions) takes the scheduler's answer and in this step removes
\* the session it was checking
ReconciliationRemoves(t, result) ==
  /\ stask[t].pc = "details"
  /\ DetailsReturns(t, result)
  /\ Listed(sessions, stask[t].session_id)
  /\ ~Listed(sessions', stask[t].session_id)

\* C34: get_session removes a session only on a status query that succeeded and
\* reported the allocation in a state other than RUNNING or PENDING: a failed
\* query drops nothing, so a session whose allocation the scheduler still holds
\* is not removed by it unless a cancel has been issued for its job.
C34_RemovalNeedsReport ==
  [][\A t \in Tasks : \A rc \in ReturnCodes, st \in JobStates :
       ReconciliationRemoves(t, [returncode |-> rc, state |-> st])
       => /\ rc = 0
          /\ st \notin Allocated]_vars

(***************************************************************************)
(* C35: a failed connect inside get_cluster_instances                      *)
(***************************************************************************)
\* the connect that task t's get_cluster_instances call awaits fails in this step
GciConnectFails(t) == task[t].ctx = "gci" /\ ConnectFails(t)

\* task t's get_cluster_instances call takes a step that is not its return
GciWorks(t) ==
  /\ \/ \E cluster_name \in ClusterInputs, node \in NodeInputs :
          CallGetClusterInstances(t, cluster_name, node)
     \/ task[t].op = GCI /\ task[t].pc # "idle" /\ task'[t] # task[t]
  /\ ~(task'[t].pc = "idle" /\ outcome' = [op |-> GCI, value |-> "ok"])

\* C35: when the connect inside get_cluster_instances fails, the call raises the
\* connection error, the NodeConnection's connected flag is false before and after,
\* and no step of a call that does not return changes any cluster's current_node.
C35_FailedConnectKeepsCurrentNode ==
  [][\A t \in Tasks :
       /\ GciConnectFails(t)
          => LET c == task[t].cluster
                 h == task[t].hostname
             IN /\ task'[t].pc = "idle"
                /\ outcome' = [op |-> GCI, value |-> "SSHConnectionError"]
                /\ ~clusters[c].node_connections[h].connected
                /\ ~clusters'[c].node_connections[h].connected
                /\ clusters'[c].current_node = clusters[c].current_node
       /\ GciWorks(t)
          => \A c \in ClusterNames :
               clusters'[c].current_node = clusters[c].current_node]_vars

\* a switch to another node of a cluster has just failed: the cluster still has
\* its current node, and the node asked for is not connected
C35_Witness ==
  /\ outcome = [op |-> GCI, value |-> "SSHConnectionError"]
  /\ \E x \in DOMAIN ssh :
       /\ ghost[x].fails > 0
       /\ ~Flag(clusters, x)
       /\ clusters[ssh[x].cluster].current_node # None
       /\ clusters[ssh[x].cluster].current_node # ssh[x].hostname

(***************************************************************************)
(* C36: the current node is a connected node of its cluster                *)
(***************************************************************************)
C36_State ==
  \A c \in ClusterNames :
    LET current_node == clusters[c].current_node IN
    \/ current_node = None
    \/ /\ current_node \in DOMAIN Conns(c)
       /\ Conns(c)[current_node].connected

\* task t's disconnect_node(c, hostname) call takes a step
DisconnectNodeWorks(t, c, hostname) ==
  \/ CallDisconnectNode(t, c, hostname)
  \/ /\ task[t].op = "disconnect_node" /\ task[t].pc # "idle"
     /\ task[t].cluster = c /\ task[t].hostname = hostname
     /\ task'[t] # task[t]

C36_Step ==
  \A t \in Tasks, c \in ClusterNames, hostname \in HostInputs :
    DisconnectNodeWorks(t, c, hostname)
    => /\ \A k \in ClusterNames \ {c} :
            clusters'[k].current_node = clusters[k].current_node
       /\ clusters[c].current_node # hostname
          => clusters'[c].current_node = clusters[c].current_node
       /\ clusters'[c].current_node \in {clusters[c].current_node, None}
       /\ task'[t].pc = "idle" => clusters'[c].current_node # hostname

\* C36: in every reachable state each cluster's current_node is null or the key
\* of one of its NodeConnections whose connected flag is true; a disconnect_node
\* of the current node has cleared current_node when it returns, and a
\* disconnect_node of any other node leaves current_node as it is.
C36_CurrentNodeConnected == []C36_State /\ [][C36_Step]_vars

\* a disconnect_node of the current node has returned and left the cluster with
\* another connected node and no current node
C36_Witness ==
  /\ outcome = [op |-> "disconnect_node", value |-> "True"]
  /\ clusters["A"].current_node = None
  /\ \E h, g \in DOMAIN Conns("A") : Conns("A")[h].connected /\ ~Conns("A")[g].connected

(***************************************************************************)
(* C37: the handle of a node-qualified request                             *)
(***************************************************************************)
\* task t is between calls and holds the instances that its
\* get_cluster_instances(c, node) call with an explicit node returned
HoldsHandle(t) ==
  /\ task[t].pc = "idle"
  /\ handle[t] # NoHandle

\* C37: while a caller holds the instances that get_cluster_instances(c, node=X)
\* returned to it and has not yet issued its command, instances.ssh_client is
\* non-null and is the transport of the hostname X resolved to, whatever other
\* tasks have called on the same cluster in the meantime.
C37_HandleKeepsTarget ==
  \A t \in Tasks :
    HoldsHandle(t)
    => LET c == handle[t].cluster
           hostname == handle[t].hostname
       IN /\ ssh_client(clusters[c]) # 0
          /\ ssh_client(clusters[c]) = Conns(c)[hostname].ssh_client

(***************************************************************************)
(* C38: the sessions of the table are active                               *)
(***************************************************************************)
C38_State == \A i \in 1..Len(sessions) : heap[sessions[i]].status = "active"

\* a list_sessions call returns in this step
ListSessionsReturns ==
  \E t \in Tasks :
    /\ CallListSessions(t) \/ stask[t].op = "list_sessions"
    /\ stask'[t].pc = "idle"
    /\ sout'.op = "list_sessions"

C38_Step ==
  /\ \A id \in Created :
       (heap[id].status = "active" /\ heap'[id].status = "ended")
       => Listed(sessions, id) /\ ~Listed(sessions', id)
  /\ ListSessionsReturns
     => \A i \in 1..Len(sout'.listed) : heap'[sout'.listed[i]].status = "active"

\* C38: in every reachable state every session of the table has status active; a
\* session is marked ended only in the step that deletes it from the table; and
\* the sessions a list_sessions call returns all have status active.
C38_TableSessionsActive == []C38_State /\ [][C38_Step]_vars

\* the same without the sessions that list_sessions returns
C38_TableOnly ==
  /\ []C38_State
  /\ [][\A id \in Created :
          (heap[id].status = "active" /\ heap'[id].status = "ended")
          => Listed(sessions, id) /\ ~Listed(sessions', id)]_vars

(***************************************************************************)
(* C39: deadlock freedom of the manager operations                         *)
(***************************************************************************)
\* task t is inside get_cluster_instances or one of the disconnect operations
InManagerCall(t) == task[t].pc # "idle" /\ task[t].op \in {GCI} \cup DisconnectOps

\* task t holds the lock or waits for it
InQueue(lock, t) == \E i \in 1..Len(lock) : lock[i] = t

C39_State ==
  \A t \in Tasks :
    \* the manager lock is not asked for again by a task that holds or awaits it
    /\ Cardinality({i \in 1..Len(mgr_lock) : mgr_lock[i] = t}) <= 1
    \* a call that has returned or raised has released every lock
    /\ task[t].pc = "idle"
       => /\ ~InQueue(mgr_lock, t)
          /\ \A x \in DOMAIN ssh : ~InQueue(ssh[x].lock, t)
    \* manager, then transport: a task that waits for the manager lock holds no
    \* transport lock, and a manager operation asks for a transport lock only
    \* while it holds the manager lock
    /\ task[t].pc = "mgr_wait" => \A x \in DOMAIN ssh : ~InQueue(ssh[x].lock, t)
    /\ InManagerCall(t)
       => \A x \in DOMAIN ssh : InQueue(ssh[x].lock, t) => Holds(mgr_lock, t)

\* C39: with a fair scheduler and connect and close calls that terminate, every
\* get_cluster_instances, disconnect_node, disconnect_cluster and disconnect_all
\* call eventually returns or raises; the manager lock is taken before a
\* transport lock, never asked for again while held, and released on every path.
C39_DeadlockFreedom ==
  /\ []C39_State
  /\ \A t \in Tasks : InManagerCall(t) ~> task[t].pc = "idle"

\* a get_cluster_instances call holds the manager lock while its connect is in
\* progress, and a disconnect waits for that lock
C39_Witness ==
  \E t, u \in Tasks :
    /\ task[t].op = GCI /\ task[t].pc = "ssh_connecting" /\ Holds(mgr_lock, t)
    /\ task[u].op \in DisconnectOps /\ task[u].pc = "mgr_wait"
====
